---- MODULE Spec2Model ----
\* Model of the velero-integrator charm: the reconcile pass of
\* src/src/events/general.py, the publish step of src/src/events/velero_backup.py,
\* the context queries of src/src/core/context.py and the record/merge logic of
\* src/src/core/domain.py, driven by the Juju events the charm observes.
EXTENDS Integers, Sequences, FiniteSets, TLC

\* ---------------------------------------------------------------------------
\* Bounds of the model (not program constants)
MaxUpstream == 2
MaxDownstream == 2
MaxFaults == 1

\* ---------------------------------------------------------------------------
\* Python values.  A string that the code inspects character by character is a
\* sequence of one-character strings; an optional such string is a record
\* [some, v].  All other strings are TLA+ strings.
NoneVal == [some |-> FALSE, v |-> <<>>]
Some(x) == [some |-> TRUE, v |-> x]

\* Databag field names
SPEC_FIELD == "spec"
APP_FIELD == "app"
RELATION_FIELD == "relation_name"
MODEL_FIELD == "model"

\* Relation (endpoint) names
K8S_BACKUP_TARGET_RELATION == "k8s-backup-target"
VELERO_BACKUP_RELATION == "velero-backup"

\* self.charm.model.name of the integrator
ModelName == "integrator-model"

\* A python dict with string keys is a function whose domain is the key set.
EmptyDict == [k \in {} |-> ""]

\* dict.setdefault for every key of new: a key that d has keeps its value
DictUpdate_keep_existing(d, new) ==
    [k \in (DOMAIN d) \cup (DOMAIN new) |-> IF k \in DOMAIN d THEN d[k] ELSE new[k]]

\* dict.update
DictUpdate(d, new) ==
    [k \in (DOMAIN d) \cup (DOMAIN new) |-> IF k \in DOMAIN new THEN new[k] ELSE d[k]]

\* ---------------------------------------------------------------------------
\* JSON.  A JSON value is [t, v]: t is its type, v a sequence of strings
\* (list items, the one string, "true"/"false", or key,value,... of an object
\* of strings).  A JSON text is [kind, members]: what a JSON decoder finds in
\* it -- nothing ("empty"), a syntax error ("malformed") or an object with the
\* members in textual order.
JNull == [t |-> "null", v |-> <<>>]
JStr(s) == [t |-> "str", v |-> <<s>>]
JChars(cs) == [t |-> "str", v |-> cs]
JList(l) == [t |-> "list", v |-> l]
JBool(b) == [t |-> "bool", v |-> IF b THEN <<"true">> ELSE <<"false">>]
JDict(kv) == [t |-> "dict", v |-> kv]

Member(k, val) == [k |-> k, val |-> val]
EmptyText == [kind |-> "empty", members |-> <<>>]
MalformedText == [kind |-> "malformed", members |-> <<>>]
ObjectText(ms) == [kind |-> "object", members |-> ms]

\* json.loads of an object: a later duplicate key overrides an earlier one
RECURSIVE JsonLoads(_)
JsonLoads(ms) ==
    IF ms = <<>> THEN [k \in {} |-> JNull]
    ELSE LET n == Len(ms)
             rest == JsonLoads(SubSeq(ms, 1, n - 1))
         IN  [k \in (DOMAIN rest) \cup {ms[n].k} |->
                 IF k = ms[n].k THEN ms[n].val ELSE rest[k]]

\* ---------------------------------------------------------------------------
\* core/charm_config.py: the cron grammar and CharmConfig

Digits == {"0", "1", "2", "3", "4", "5", "6", "7", "8", "9"}
Whitespace == {" ", "\t", "\n"}

AllDigits(s) == Len(s) > 0 /\ \A i \in 1..Len(s) : s[i] \in Digits

\* the pieces of s from start on, cut at the characters of seps found from i on
RECURSIVE SplitFrom(_, _, _, _)
SplitFrom(s, i, start, seps) ==
    IF i > Len(s) THEN <<SubSeq(s, start, Len(s))>>
    ELSE IF s[i] \in seps
         THEN <<SubSeq(s, start, i - 1)>> \o SplitFrom(s, i + 1, i + 1, seps)
         ELSE SplitFrom(s, i + 1, start, seps)

\* the pieces of s between occurrences of a character of seps
SplitOn(s, seps) == SplitFrom(s, 1, 1, seps)

\* \d+ alone, no range
CronRange_number_only(s) == AllDigits(s)

\* \d+(-\d+)?
CronRange(s) ==
    LET parts == SplitOn(s, {"-"})
    IN  /\ Len(parts) \in {1, 2}
        /\ \A i \in 1..Len(parts) : AllDigits(parts[i])

\* (\*|(\*/\d+)|(\d+(-\d+)?)(,\d+(-\d+)?)*|\?)
CRON_FIELD(s) ==
    \/ s = <<"*">>
    \/ /\ Len(s) >= 3
       /\ s[1] = "*"
       /\ s[2] = "/"
       /\ AllDigits(SubSeq(s, 3, Len(s)))
    \/ LET items == SplitOn(s, {","})
       IN  \A i \in 1..Len(items) : CronRange(items[i])
    \/ s = <<"?">>

\* re.match(^FIELD(\s+FIELD){4,5}$, s): 5 or 6 fields separated by runs of
\* whitespace, nothing before the first field, and after the last field
\* nothing but the one newline that $ tolerates.
CRON_REGEX(s) ==
    LET body == IF Len(s) > 0 /\ s[Len(s)] = "\n" THEN SubSeq(s, 1, Len(s) - 1) ELSE s
        pieces == SplitOn(body, Whitespace)
        fields == SelectSeq(pieces, LAMBDA p : p # <<>>)
    IN  /\ Len(body) > 0
        /\ body[1] \notin Whitespace
        /\ body[Len(body)] \notin Whitespace
        /\ Len(fields) \in {5, 6}
        /\ \A i \in 1..Len(fields) : CRON_FIELD(fields[i])

\* a field validator that returns the value it is given
blank_string_identity(value) == value

\* CharmConfig.blank_string: the empty string becomes None
blank_string(value) ==
    IF value.some /\ value.v = <<>> THEN NoneVal ELSE value

\* a model validator that never raises
validate_schedule_never(schedule) == FALSE

\* CharmConfig.validate_schedule: TRUE when the model validator raises
validate_schedule(schedule) ==
    schedule.some /\ schedule.v # <<>> /\ ~CRON_REGEX(schedule.v)

\* CharmConfig(...): [ok, schedule, paused, ...]; ok is FALSE when
\* construction raises ValidationError
CharmConfig(raw) ==
    LET schedule == blank_string(raw.schedule)
    IN  [ok |-> ~validate_schedule(schedule),
         schedule |-> schedule,
         paused |-> raw.paused,
         skip_immediately |-> raw.skip_immediately,
         use_owner_references_in_backup |-> raw.use_owner_references_in_backup]

\* is_scheduled answering True for every configuration
is_scheduled_always(config) == TRUE

\* CharmConfig.is_scheduled
is_scheduled(config) == config.schedule.some

\* is_paused answering the paused option alone
is_paused_ignoring_schedule(config) == config.paused

\* CharmConfig.is_paused
is_paused(config) == config.paused /\ is_scheduled(config)

\* ---------------------------------------------------------------------------
\* lib/charms/k8s_backup_libs/v0/backup_target.py: BackupTargetSpec

ListFields == {"include_namespaces", "include_resources",
               "exclude_namespaces", "exclude_resources"}

\* the fields of BackupTargetSpec in declaration order
TargetFieldOrder == <<"include_namespaces", "include_resources",
                      "exclude_namespaces", "exclude_resources",
                      "label_selector", "ttl", "include_cluster_resources">>

TargetFields == {TargetFieldOrder[i] : i \in 1..Len(TargetFieldOrder)}

\* strings that pydantic's lax mode accepts for a bool field
BoolTrueStrings == {"true", "True", "1", "yes", "on", "y", "t"}
BoolFalseStrings == {"false", "False", "0", "no", "off", "n", "f"}

\* does the JSON value fit the declared type of the field (Optional[...])
FieldTypeOk(f, val) ==
    \/ val.t = "null"
    \/ f \in ListFields /\ val.t = "list"
    \/ f = "label_selector" /\ val.t = "dict"
    \/ f = "ttl" /\ val.t = "str"
    \/ f = "include_cluster_resources" /\
          \/ val.t = "bool"
          \/ val.t = "str" /\ Len(val.v) = 1 /\ val.v[1] \in BoolTrueStrings \cup BoolFalseStrings

\* the python value the field takes
FieldValue(f, val) ==
    IF f = "include_cluster_resources" /\ val.t = "str"
    THEN JBool(val.v[1] \in BoolTrueStrings)
    ELSE val

\* the member of the decoded object that a field takes (default None)
Given(obj, f) == IF f \in DOMAIN obj THEN obj[f] ELSE JNull

\* the fields taken as they come, none of them checked against its type
BackupTargetSpec_model_construct(obj) ==
    [ok |-> TRUE, spec |-> [f \in TargetFields |-> FieldValue(f, Given(obj, f))]]

\* BackupTargetSpec validation of the decoded object: [ok, spec]; ok is FALSE
\* when it raises.  Unknown members are ignored, missing fields take the
\* default None.  (__post_init__ is not a pydantic hook, so the ttl is not
\* checked here.)
BackupTargetSpec_model_validate(obj) ==
    [ok |-> \A f \in TargetFields : FieldTypeOk(f, Given(obj, f)),
     spec |-> [f \in TargetFields |->
                  IF FieldTypeOk(f, Given(obj, f)) THEN FieldValue(f, Given(obj, f)) ELSE JNull]]

\* BackupTargetSpec.model_validate_json(text): a text that is no JSON object
\* raises as well
BackupTargetSpec_model_validate_json(text) ==
    IF text.kind # "object" THEN [ok |-> FALSE, spec |-> [f \in TargetFields |-> JNull]]
    ELSE BackupTargetSpec_model_validate(JsonLoads(text.members))

\* ---------------------------------------------------------------------------
\* charms/velero_libs/v0/velero_backup_config.py: VeleroBackupSpec, the target
\* fields plus schedule, paused, skip_immediately, use_owner_references_in_backup

VeleroFieldOrder == TargetFieldOrder \o
    <<"schedule", "paused", "skip_immediately", "use_owner_references_in_backup">>

VeleroFields == {VeleroFieldOrder[i] : i \in 1..Len(VeleroFieldOrder)}

VeleroDefault(f) == IF f \in {"paused", "skip_immediately", "use_owner_references_in_backup"}
                    THEN JBool(FALSE) ELSE JNull

\* VeleroBackupSpec.model_validate(spec_dict): absent keys take their default
VeleroBackupSpec_model_validate(spec_dict) ==
    [f \in VeleroFields |-> IF f \in DOMAIN spec_dict THEN spec_dict[f] ELSE VeleroDefault(f)]

\* model_dump_json(): every field, in declaration order
RECURSIVE DumpMembers(_, _)
DumpMembers(obj, order) ==
    IF order = <<>> THEN <<>>
    ELSE <<Member(Head(order), obj[Head(order)])>> \o DumpMembers(obj, Tail(order))

VeleroBackupSpec_model_dump_json(velero_spec) ==
    ObjectText(DumpMembers(velero_spec, VeleroFieldOrder))

\* a dump that leaves the ttl out
BackupTargetSpec_model_dump_json_without_ttl(spec) ==
    ObjectText(DumpMembers(spec, SelectSeq(TargetFieldOrder, LAMBDA f : f # "ttl")))

\* BackupTargetSpec.model_dump_json(), as _send_data calls it: every field in
\* declaration order, None as null
BackupTargetSpec_model_dump_json(spec) ==
    ObjectText(DumpMembers(spec, TargetFieldOrder))

\* the number of digits s starts with
RECURSIVE LeadingDigits(_)
LeadingDigits(s) ==
    IF s = <<>> \/ Head(s) \notin Digits THEN 0 ELSE 1 + LeadingDigits(Tail(s))

\* (?:(\d+)unit)? matched at the start of s: what is left of s after it
OptionalAmount(s, unit) ==
    LET n == LeadingDigits(s)
    IN  IF n > 0 /\ Len(s) > n /\ s[n + 1] = unit
        THEN SubSeq(s, n + 2, Len(s))
        ELSE s

\* re.match(DURATION_REGEX, s) with
\* DURATION_REGEX = ^(?=.*\d)(?:(\d+)h)?(?:(\d+)m)?(?:(\d+)s)?$
DURATION_REGEX(s) ==
    LET body == IF Len(s) > 0 /\ s[Len(s)] = "\n" THEN SubSeq(s, 1, Len(s) - 1) ELSE s
    IN  /\ \E i \in 1..Len(body) : body[i] \in Digits
        /\ OptionalAmount(OptionalAmount(OptionalAmount(body, "h"), "m"), "s") = <<>>

\* BackupTargetSpec.__post_init__: TRUE when it raises ValueError.  It is the
\* hook of a dataclass; BackupTargetSpec is a pydantic BaseModel, and nothing
\* calls it, neither the constructor nor model_validate_json.
post_init(spec) ==
    /\ spec["ttl"].t = "str"
    /\ spec["ttl"].v # <<>>
    /\ ~DURATION_REGEX(spec["ttl"].v)

\* ---------------------------------------------------------------------------
\* core/domain.py: BackupTargetInfo

\* the fallback, whatever the data hold
GetOr_fallback_only(data, key, fallback) == fallback

\* data.get(key) or fallback
GetOr(data, key, fallback) ==
    IF key \in DOMAIN data /\ data[key] # "" THEN data[key] ELSE fallback

NoTarget == [ok |-> FALSE, spec |-> [f \in TargetFields |-> JNull],
             app_name |-> "", relation_name |-> "", model_name |-> ""]

\* lines 51-62 of from_relation_data, the spec being parsed: ok is FALSE when
\* it returns None (the relation handle kept in the record is read by nothing
\* and is left out)
TargetOf(parsed, data, relation, default_model_name) ==
    IF ~parsed.ok THEN NoTarget
    ELSE [ok |-> TRUE,
          spec |-> parsed.spec,
          app_name |-> GetOr(data, APP_FIELD, relation.app_name),
          relation_name |-> GetOr(data, RELATION_FIELD, relation.name),
          model_name |-> GetOr(data, MODEL_FIELD, default_model_name)]

\* from_relation_data with data.get(SPEC_FIELD, "{}"): an absent spec read as
\* the empty object
from_relation_data_default_spec(data, relation, default_model_name) ==
    IF SPEC_FIELD \notin DOMAIN data
    THEN TargetOf(BackupTargetSpec_model_validate_json(ObjectText(<<>>)),
                  data, relation, default_model_name)
    ELSE IF data[SPEC_FIELD].kind = "empty" THEN NoTarget
    ELSE TargetOf(BackupTargetSpec_model_validate_json(data[SPEC_FIELD]),
                  data, relation, default_model_name)

\* BackupTargetInfo.from_relation_data
from_relation_data(data, relation, default_model_name) ==
    IF SPEC_FIELD \notin DOMAIN data \/ data[SPEC_FIELD].kind = "empty" THEN NoTarget
    ELSE TargetOf(BackupTargetSpec_model_validate_json(data[SPEC_FIELD]),
                  data, relation, default_model_name)

\* to_velero_spec with the paused assignment under the schedule condition
to_velero_spec_paused_with_schedule(target, config) ==
    LET spec_dict == target.spec
        with_schedule ==
            IF config.schedule.some /\ config.schedule.v # <<>>
            THEN DictUpdate(spec_dict,
                    [k \in {"schedule", "paused"} |->
                        IF k = "schedule" THEN JChars(config.schedule.v)
                        ELSE JBool(config.paused)])
            ELSE spec_dict
        merged == DictUpdate(with_schedule,
            [k \in {"skip_immediately", "use_owner_references_in_backup"} |->
                CASE k = "skip_immediately" -> JBool(config.skip_immediately)
                  [] OTHER -> JBool(config.use_owner_references_in_backup)])
    IN  VeleroBackupSpec_model_validate(merged)

\* to_velero_spec without the use_owner_references_in_backup assignment
to_velero_spec_without_owner_references(target, config) ==
    LET spec_dict == target.spec
        with_schedule ==
            IF config.schedule.some /\ config.schedule.v # <<>>
            THEN DictUpdate(spec_dict, [k \in {"schedule"} |-> JChars(config.schedule.v)])
            ELSE spec_dict
        merged == DictUpdate(with_schedule,
            [k \in {"paused", "skip_immediately"} |->
                CASE k = "paused" -> JBool(config.paused)
                  [] OTHER -> JBool(config.skip_immediately)])
    IN  VeleroBackupSpec_model_validate(merged)

\* BackupTargetInfo.to_velero_spec
to_velero_spec(target, config) ==
    LET spec_dict == target.spec
        with_schedule ==
            IF config.schedule.some /\ config.schedule.v # <<>>
            THEN DictUpdate(spec_dict, [k \in {"schedule"} |-> JChars(config.schedule.v)])
            ELSE spec_dict
        merged == DictUpdate(with_schedule,
            [k \in {"paused", "skip_immediately", "use_owner_references_in_backup"} |->
                CASE k = "paused" -> JBool(config.paused)
                  [] k = "skip_immediately" -> JBool(config.skip_immediately)
                  [] OTHER -> JBool(config.use_owner_references_in_backup)])
    IN  VeleroBackupSpec_model_validate(merged)

\* BackupTargetInfo.to_databag_dict
\* a databag that holds the spec alone
to_databag_dict_without_provenance(target, velero_spec) ==
    [k \in {SPEC_FIELD} |-> VeleroBackupSpec_model_dump_json(velero_spec)]

to_databag_dict(target, velero_spec) ==
    [k \in {SPEC_FIELD, APP_FIELD, RELATION_FIELD, MODEL_FIELD} |->
        CASE k = SPEC_FIELD -> VeleroBackupSpec_model_dump_json(velero_spec)
          [] k = APP_FIELD -> target.app_name
          [] k = RELATION_FIELD -> target.relation_name
          [] OTHER -> target.model_name]

\* ---------------------------------------------------------------------------
\* State

\* no client unit, no call made
NoProvider == [leader |-> FALSE, spec |-> [f \in TargetFields |-> JNull],
               relations |-> <<>>, sent |-> <<>>, event |-> ""]
NoAnswer == [asked |-> <<>>, found |-> FALSE, raised |-> FALSE,
             spec |-> [f \in TargetFields |-> JNull]]

VARIABLES
    leader,            \* self.charm.unit.is_leader()
    config,            \* self.charm.config: the raw options
    k8s_relations,     \* model.relations["k8s-backup-target"], in order of establishment
    velero_relations,  \* model.relations["velero-backup"], in order of establishment
    status,            \* self.charm.unit.status
    writes,            \* the databag writes made by the last handler, in order
    reconciled,        \* TRUE when the last step was a handler whose pass ran
                       \* to its end, so that status and writes are those of
                       \* a pass run by this unit on the current configuration
                       \* and relations
    raised,            \* what the hook of the last handler raised
    defers,            \* the calls of event.defer() made by the last handler
    propagated,        \* what the last handler raised to the framework
    faults,            \* the reads of relation data that fail from now on
    status_sets,       \* the assignments to self.charm.unit.status made by
                       \* the last handler
    failed_write,      \* the write whose update() raised in the last handler
    provider,          \* a client application's unit that holds a
                       \* BackupTargetProvider: [leader, spec, relations, sent]
    answer             \* what the last call of get_backup_spec returned

vars == <<leader, config, k8s_relations, velero_relations, status, writes, reconciled,
          raised, defers, propagated, faults, status_sets, failed_write, provider, answer>>

\* ---------------------------------------------------------------------------
\* core/context.py: Context

\* Context.config: ok is FALSE when the property returns None
\* a config property that also gives None for a paused configuration
ContextConfig_none_when_paused(raw) == [CharmConfig(raw) EXCEPT !.ok = @ /\ ~raw.paused]

ContextConfig(raw) == CharmConfig(raw)

\* the loc tuple pydantic reports for an error raised by a model validator
ModelValidatorLoc == <<>>

\* ".".join(str(p).replace("_", "-") for p in loc); no loc has more than one part
JoinLoc(loc) == IF loc = <<>> THEN "" ELSE loc[1]

\* Context.config_errors
config_errors(raw) ==
    IF CharmConfig(raw).ok THEN <<>> ELSE <<JoinLoc(ModelValidatorLoc)>>

\* has_velero_relation comparing with >= 0
has_velero_relation_any(velero) == Len(velero) >= 0

\* Context.has_velero_relation
has_velero_relation(velero) == Len(velero) > 0

\* has_k8s_backup_relation comparing with >= 0
has_k8s_backup_relation_any(k8s) == Len(k8s) >= 0

\* has_k8s_backup_relation counting the relations whose remote application
\* is known
has_k8s_backup_relation_with_app(k8s) == \E i \in DOMAIN k8s : k8s[i].has_app

\* Context.has_k8s_backup_relation
has_k8s_backup_relation(k8s) == Len(k8s) > 0

\* Context.get_backup_targets
\* lines 104-105: targets.append(target) when there is one
AppendTarget(targets, target) == IF target.ok THEN Append(targets, target) ELSE targets

\* the loop of get_backup_targets over the relations left
RECURSIVE CollectTargets(_, _)
CollectTargets(targets, k8s) ==
    IF k8s = <<>> THEN targets
    ELSE IF ~Head(k8s).has_app THEN CollectTargets(targets, Tail(k8s))
    ELSE CollectTargets(
             AppendTarget(targets, from_relation_data(Head(k8s).data, Head(k8s), ModelName)),
             Tail(k8s))

get_backup_targets(k8s) == CollectTargets(<<>>, k8s)

\* ---------------------------------------------------------------------------
\* events/velero_backup.py: the publish step

\* A write is [relation, data]: relation.data[self.charm.app].update(data) on
\* the relation at that place of velero_relations.  The publish step yields
\* [velero, writes]: the relations as it leaves them and the writes it made.

\* the entities whose databags a relation holds on the side of the charm:
\* relation.data[self.charm.app] and relation.data[self.charm.unit]
CharmApp == "app"
CharmUnit == "unit"

\* a write: the databag of entity on the link at place of the endpoint is
\* updated with data
Write(relation, place, entity, data) ==
    [endpoint |-> relation.name, relation |-> place, entity |-> entity, data |-> data]

\* no write
NoWrite == [endpoint |-> "", relation |-> 0, entity |-> "", data |-> EmptyDict]

\* one turn of the loop that takes back a record the databag already holds
PublishTarget_retracting_repeat(result, place, target, databag) ==
    [velero |-> [result.velero EXCEPT ![place].data =
                    IF @ = databag THEN EmptyDict ELSE DictUpdate(@, databag)],
     writes |-> Append(result.writes,
                       Write(result.velero[place], place, CharmApp, databag))]

\* one turn of the loop writing to relation.data[self.charm.unit]
PublishTarget_unit_databag(result, place, target, databag) ==
    [velero |-> result.velero,
     writes |-> Append(result.writes,
                       Write(result.velero[place], place, CharmUnit, databag))]

\* lines 91-93 of publish_to_relation: one target written to one relation
PublishTarget(result, place, target, databag) ==
    [velero |-> [result.velero EXCEPT ![place].data = DictUpdate(@, databag)],
     writes |-> Append(result.writes,
                       Write(result.velero[place], place, CharmApp, databag))]

\* a loop that publishes the first target only
PublishTargets_first_target(result, place, targets, cfg) ==
    IF targets = <<>> THEN result
    ELSE PublishTarget(result, place, Head(targets),
                       to_databag_dict(Head(targets), to_velero_spec(Head(targets), cfg)))

\* the loop over the targets of publish_to_relation
RECURSIVE PublishTargets(_, _, _, _)
PublishTargets(result, place, targets, cfg) ==
    IF targets = <<>> THEN result
    ELSE PublishTargets(
             PublishTarget(result, place, Head(targets),
                           to_databag_dict(Head(targets), to_velero_spec(Head(targets), cfg))),
             place, Tail(targets), cfg)

\* publish_to_relation clearing the databag when there is no target
PublishWith_retracting(result, place, is_leader, cfg, k8s) ==
    IF ~is_leader THEN result
    ELSE IF ~cfg.ok THEN result
    ELSE IF get_backup_targets(k8s) = <<>>
    THEN [result EXCEPT !.velero[place].data = EmptyDict]
    ELSE PublishTargets(result, place, get_backup_targets(k8s), cfg)

\* publish_to_relation without the check of the configuration
PublishWith_any_config(result, place, is_leader, cfg, k8s) ==
    IF ~is_leader THEN result
    ELSE PublishTargets(result, place, get_backup_targets(k8s), cfg)

\* publish_to_relation once the configuration has been read
PublishWith(result, place, is_leader, cfg, k8s) ==
    IF ~is_leader THEN result
    ELSE IF ~cfg.ok THEN result
    ELSE PublishTargets(result, place, get_backup_targets(k8s), cfg)

\* VeleroBackupEvents.publish_to_relation, on the relation at place
publish_to_relation(result, place, is_leader, raw, k8s) ==
    PublishWith(result, place, is_leader, ContextConfig(raw), k8s)

\* the loop of publish_to_all_relations left after its first relation
PublishRelations_first_only(result, place, is_leader, raw, k8s) ==
    IF place > Len(result.velero) THEN result
    ELSE publish_to_relation(result, place, is_leader, raw, k8s)

\* the loop of publish_to_all_relations from the relation at place on
RECURSIVE PublishRelations(_, _, _, _, _)
PublishRelations(result, place, is_leader, raw, k8s) ==
    IF place > Len(result.velero) THEN result
    ELSE PublishRelations(publish_to_relation(result, place, is_leader, raw, k8s),
                          place + 1, is_leader, raw, k8s)

\* VeleroBackupEvents.publish_to_all_relations
publish_to_all_relations(velero, is_leader, raw, k8s) ==
    IF ~is_leader THEN [velero |-> velero, writes |-> <<>>]
    ELSE PublishRelations([velero |-> velero, writes |-> <<>>], 1, is_leader, raw, k8s)

\* ---------------------------------------------------------------------------
\* events/general.py: the reconcile pass

\* a status is [name, message, arg]: the message is the text followed by arg,
\* the characters of the schedule or the quoted names of the invalid fields
Status(name, message, arg) == [name |-> name, message |-> message, arg |-> arg]

ActiveStatus(message, arg) == Status("active", message, arg)
BlockedStatus(message, arg) == Status("blocked", message, arg)
WaitingStatus(message, arg) == Status("waiting", message, arg)

\* what a hook raises: nothing, the error of the transport when data is read
\* before it is settled, or any other exception
NoError == "none"
PrematureDataAccessError == "PrematureDataAccessError"
OtherError == "Exception"
Errors == {PrematureDataAccessError, OtherError}

\* a pass that assigns the status again before it returns
Returned_after_second_status(unit_status, published) ==
    [status |-> unit_status, velero |-> published.velero, writes |-> published.writes,
     raised |-> NoError, sets |-> 2]

\* a pass yields [status, velero, writes, raised, sets]; one that returns
\* raised nothing and made the one assignment of its branch to the status
Returned(unit_status, published) ==
    [status |-> unit_status, velero |-> published.velero, writes |-> published.writes,
     raised |-> NoError, sets |-> 1]

NothingPublished(velero) == [velero |-> velero, writes |-> <<>>]

\* lines 77-85 of _reconcile: the status chosen from the schedule configuration
ScheduleStatus(cfg) ==
    IF cfg.ok /\ is_scheduled(cfg)
    THEN IF is_paused(cfg)
         THEN ActiveStatus("Schedule paused", <<>>)
         ELSE ActiveStatus("Schedule: ", cfg.schedule.v)
    ELSE ActiveStatus("Manual backup mode", <<>>)

\* the status after the publish step chosen by the records found
StatusAfterPublish_by_targets(raw, k8s) ==
    IF get_backup_targets(k8s) = <<>>
    THEN WaitingStatus("Waiting for k8s-backup-target relation", <<>>)
    ELSE ScheduleStatus(ContextConfig(raw))

\* lines 72-85 of _reconcile: the status set after the publish step
StatusAfterPublish(raw, k8s) ==
    IF ~has_k8s_backup_relation(k8s)
    THEN WaitingStatus("Waiting for k8s-backup-target relation", <<>>)
    ELSE ScheduleStatus(ContextConfig(raw))

\* lines 55-85 with the relation check made before the configuration check
ReconcileLeader_relation_first(is_leader, errors, raw, k8s, velero) ==
    IF ~has_velero_relation(velero)
    THEN Returned(BlockedStatus("Missing relation: velero-backup", <<>>),
                  NothingPublished(velero))
    ELSE IF errors # <<>>
    THEN Returned(BlockedStatus("Invalid configuration: ", errors), NothingPublished(velero))
    ELSE Returned(StatusAfterPublish(raw, k8s),
                  publish_to_all_relations(velero, is_leader, raw, k8s))

\* lines 55-85 of _reconcile: what follows the leadership check, the errors
\* being read
ReconcileLeader(is_leader, errors, raw, k8s, velero) ==
    IF errors # <<>>
    THEN Returned(BlockedStatus("Invalid configuration: ", errors), NothingPublished(velero))
    ELSE IF ~has_velero_relation(velero)
    THEN Returned(BlockedStatus("Missing relation: velero-backup", <<>>),
                  NothingPublished(velero))
    ELSE Returned(StatusAfterPublish(raw, k8s),
                  publish_to_all_relations(velero, is_leader, raw, k8s))

\* _reconcile without the leadership check of lines 51-53
reconcile_without_standby(is_leader, raw, k8s, velero) ==
    ReconcileLeader(is_leader, config_errors(raw), raw, k8s, velero)

\* a pass that takes every unit for a standby
reconcile_as_standby(is_leader, raw, k8s, velero) ==
    Returned(ActiveStatus("Unit is ready (standby)", <<>>), NothingPublished(velero))

\* GeneralEvents._reconcile
reconcile(is_leader, raw, k8s, velero) ==
    IF ~is_leader
    THEN Returned(ActiveStatus("Unit is ready (standby)", <<>>), NothingPublished(velero))
    ELSE ReconcileLeader(is_leader, config_errors(raw), raw, k8s, velero)

\* the pass reads the databag of a remote application (get_backup_targets,
\* line 100): it is the pass of a leader on a valid configuration, with a
\* downstream link and an upstream link whose remote application is known
ReadsRelationData(is_leader, raw, k8s, velero) ==
    /\ is_leader
    /\ config_errors(raw) = <<>>
    /\ has_velero_relation(velero)
    /\ \E i \in DOMAIN k8s : k8s[i].has_app

\* a pass that error ends at its first read of relation data: nothing is
\* published yet and the status is not set
Interrupted(unit_status, velero, error) ==
    [status |-> unit_status, velero |-> velero, writes |-> <<>>, raised |-> error,
     sets |-> 0]

\* the ways a pass can go: while reads fail, a pass that reads is ended by an
\* error at its first read; any other pass runs to its end
Runs(failing, is_leader, unit_status, raw, k8s, velero) ==
    IF failing > 0 /\ ReadsRelationData(is_leader, raw, k8s, velero)
    THEN {Interrupted(unit_status, velero, error) : error \in Errors}
    ELSE {reconcile(is_leader, raw, k8s, velero)}

\* the publish step of a leader on the first kept relations of velero, the
\* others being left as they are
PublishedUpTo(velero, kept, raw, k8s) ==
    LET done == publish_to_all_relations(SubSeq(velero, 1, kept), TRUE, raw, k8s)
    IN  [velero |-> done.velero \o SubSeq(velero, kept + 1, Len(velero)),
         writes |-> done.writes]

\* a publish step that undoes its writes when one of them fails
WriteFailure_rolled_back(velero, place, turn, raw, k8s) == NothingPublished(velero)

\* publish_to_all_relations when relation.data[self.charm.app].update raises
\* (line 93) for the target at turn on the relation at place: the exception
\* leaves both loops, the writes made before it stay
WriteFailure(velero, place, turn, raw, k8s) ==
    PublishTargets(PublishedUpTo(velero, place - 1, raw, k8s), place,
                   SubSeq(get_backup_targets(k8s), 1, turn - 1), ContextConfig(raw))

\* a pass that an exception ends in the publish step: _reconcile is left at
\* line 70, before any assignment to the status
Failed(unit_status, published, error) ==
    [status |-> unit_status, velero |-> published.velero, writes |-> published.writes,
     raised |-> error, sets |-> 0]

\* a publish step that checks leadership once, before the loop
PublishedWhileLeader_unchecked(velero, kept, raw, k8s) ==
    publish_to_all_relations(velero, TRUE, raw, k8s)

\* publish_to_all_relations when is_leader() answers True for the checks of
\* the first kept relations (line 80) and False from then on: kept = 0 is
\* the loss seen at line 102 or at line 80 for the first relation
PublishedWhileLeader(velero, kept, raw, k8s) == PublishedUpTo(velero, kept, raw, k8s)

\* ---------------------------------------------------------------------------
\* events/base.py: what a handler does with what its hook raises, as
\* [defers, propagated]

\* a wrapper that defers on every exception
defer_on_any_error(error) ==
    IF error # NoError
    THEN [defers |-> 1, propagated |-> NoError]
    ELSE [defers |-> 0, propagated |-> NoError]

\* defer_on_premature_data_access_error: wrapper_hook
defer_on_premature_data_access_error(error) ==
    IF error = PrematureDataAccessError
    THEN [defers |-> 1, propagated |-> NoError]
    ELSE [defers |-> 0, propagated |-> error]

\* a handler that is not decorated: the hook itself
undecorated(error) == [defers |-> 0, propagated |-> error]

\* ---------------------------------------------------------------------------
\* Inputs of the model

\* "0 2 * * *"
Cron0200 == <<"0", " ", "2", " ", "*", " ", "*", " ", "*">>
\* "invalid-cron"
InvalidCron == <<"i", "n", "v", "a", "l", "i", "d", "-", "c", "r", "o", "n">>

Config(schedule, paused, skip_immediately, use_owner_references_in_backup) ==
    [schedule |-> schedule, paused |-> paused, skip_immediately |-> skip_immediately,
     use_owner_references_in_backup |-> use_owner_references_in_backup]

\* the configurations `juju config` sets: the schedule cleared, a valid one
\* paused and not, and an invalid one, with the two other flags set apart
ConfigInputs == {Config(Some(<<>>), TRUE, TRUE, FALSE),
                 Config(Some(Cron0200), FALSE, TRUE, TRUE),
                 Config(Some(Cron0200), TRUE, FALSE, TRUE),
                 Config(Some(InvalidCron), FALSE, FALSE, FALSE)}

\* '{"include_namespaces": ["ns1"], "ttl": "24h"}' with its provenance
FullPayload ==
    [k \in {SPEC_FIELD, APP_FIELD, RELATION_FIELD, MODEL_FIELD} |->
        CASE k = SPEC_FIELD -> ObjectText(<<Member("include_namespaces", JList(<<"ns1">>)),
                                            Member("ttl", JStr("24h"))>>)
          [] k = APP_FIELD -> "target-app"
          [] k = RELATION_FIELD -> "backup"
          [] OTHER -> "test-model"]
\* '{"include_namespaces": ["ns2"]}' alone
SpecOnlyPayload ==
    [k \in {SPEC_FIELD} |-> ObjectText(<<Member("include_namespaces", JList(<<"ns2">>))>>)]
\* {"app": "x"}
NoSpecPayload == [k \in {APP_FIELD} |-> "x"]
\* {"spec": "", "app": "y"}
EmptySpecPayload ==
    [k \in {SPEC_FIELD, APP_FIELD} |-> IF k = SPEC_FIELD THEN EmptyText ELSE "y"]
\* {"spec": "not-json{", "app": "m"}
MalformedPayload ==
    [k \in {SPEC_FIELD, APP_FIELD} |-> IF k = SPEC_FIELD THEN MalformedText ELSE "m"]
\* {"spec": '{"include_namespaces": "not-a-list"}', "app": "s"}
SchemaViolationPayload ==
    [k \in {SPEC_FIELD, APP_FIELD} |->
        IF k = SPEC_FIELD
        THEN ObjectText(<<Member("include_namespaces", JStr("not-a-list"))>>)
        ELSE "s"]

UpstreamPayloads == {FullPayload, SpecOnlyPayload, NoSpecPayload, EmptySpecPayload,
                     MalformedPayload, SchemaViolationPayload}

\* relation.app.name of the application at the other end of a relation
RemoteApp == "remote-app"

\* an upstream link of the remote application with this payload
UpstreamWith(payload) ==
    [name |-> K8S_BACKUP_TARGET_RELATION, has_app |-> TRUE, app_name |-> RemoteApp,
     data |-> payload]

RemoveAt(seq, i) == SubSeq(seq, 1, i - 1) \o SubSeq(seq, i + 1, Len(seq))

\* ---------------------------------------------------------------------------
\* The handlers.  Each applies the change that the event reports to the model
\* the charm reads, then runs the handler, which is the reconcile pass.

Ends(raw, k8s, pass, outcome) ==
    /\ config' = raw
    /\ k8s_relations' = k8s
    /\ velero_relations' = pass.velero
    /\ status' = pass.status
    /\ writes' = pass.writes
    /\ reconciled' = (pass.raised = NoError)
    /\ raised' = pass.raised
    /\ defers' = outcome.defers
    /\ propagated' = outcome.propagated
    /\ faults' = IF pass.raised = NoError \/ faults = 0 THEN faults ELSE faults - 1
    /\ status_sets' = pass.sets
    /\ UNCHANGED <<provider, answer>>

\* the state a handler leaves when the unit keeps the leadership it had and
\* no write failed
Leaves(raw, k8s, pass, outcome) ==
    /\ Ends(raw, k8s, pass, outcome)
    /\ failed_write' = NoWrite
    /\ UNCHANGED leader

\* a handler that takes the unit for the leader
Handle_as_leader(raw, k8s, velero) ==
    \E pass \in Runs(faults, TRUE, status, raw, k8s, velero) :
        Leaves(raw, k8s, pass, defer_on_premature_data_access_error(pass.raised))

\* a decorated handler run on the configuration and relations that the event
\* leaves
Handle(raw, k8s, velero) ==
    \E pass \in Runs(faults, leader, status, raw, k8s, velero) :
        Leaves(raw, k8s, pass, defer_on_premature_data_access_error(pass.raised))

\* a handler of relation-broken whose pass still lists the relation being
\* broken
HandleUndecorated_counting_broken(raw, k8s, velero) ==
    \E pass \in Runs(faults, leader, status, raw, k8s_relations, velero_relations) :
        Leaves(raw, k8s, [pass EXCEPT !.velero = velero], undecorated(pass.raised))

\* a handler without the decorator
HandleUndecorated(raw, k8s, velero) ==
    \E pass \in Runs(faults, leader, status, raw, k8s, velero) :
        Leaves(raw, k8s, pass, undecorated(pass.raised))

\* GeneralEvents._on_config_changed
ConfigChanged ==
    \E raw \in ConfigInputs :
        Handle(raw, k8s_relations, velero_relations)

\* GeneralEvents._on_upgrade_charm
UpgradeCharm == Handle(config, k8s_relations, velero_relations)

\* GeneralEvents._on_update_status
UpdateStatus == Handle(config, k8s_relations, velero_relations)

\* K8sBackupTargetEvents._on_relation_created
K8sRelationCreated ==
    /\ Len(k8s_relations) < MaxUpstream
    /\ \E has_app \in BOOLEAN :
        Handle(config,
               Append(k8s_relations,
                      [name |-> K8S_BACKUP_TARGET_RELATION, has_app |-> has_app,
                       app_name |-> RemoteApp,
                       data |-> EmptyDict]),
               velero_relations)

\* K8sBackupTargetEvents._on_relation_joined: a remote unit is there, so the
\* remote application is known
K8sRelationJoined ==
    \E i \in 1..Len(k8s_relations) :
        Handle(config,
               [k8s_relations EXCEPT ![i].has_app = TRUE], velero_relations)

\* K8sBackupTargetEvents._on_relation_changed: the remote application databag
\* has a new content
K8sRelationChanged ==
    \E i \in 1..Len(k8s_relations) : \E payload \in UpstreamPayloads :
        /\ k8s_relations[i].has_app
        /\ Handle(config,
                  [k8s_relations EXCEPT ![i].data = payload], velero_relations)

\* K8sBackupTargetEvents._on_relation_broken: the relation being broken is no
\* longer listed by model.relations
K8sRelationBroken ==
    \E i \in 1..Len(k8s_relations) :
        HandleUndecorated(config, RemoveAt(k8s_relations, i), velero_relations)

\* VeleroBackupEvents._on_relation_created
VeleroRelationCreated ==
    /\ Len(velero_relations) < MaxDownstream
    /\ Handle(config, k8s_relations,
              Append(velero_relations,
                     [name |-> VELERO_BACKUP_RELATION, data |-> EmptyDict]))

\* VeleroBackupEvents._on_relation_joined
VeleroRelationJoined ==
    /\ Len(velero_relations) > 0
    /\ Handle(config, k8s_relations, velero_relations)

\* VeleroBackupEvents._on_relation_changed
VeleroRelationChanged ==
    /\ Len(velero_relations) > 0
    /\ Handle(config, k8s_relations, velero_relations)

\* VeleroBackupEvents._on_relation_broken
VeleroRelationBroken ==
    \E i \in 1..Len(velero_relations) :
        HandleUndecorated(config, k8s_relations, RemoveAt(velero_relations, i))

\* Juju moves leadership; the charm observes no leadership event, so no
\* handler runs
LeadershipChanged ==
    /\ leader' = ~leader
    /\ writes' = <<>>
    /\ reconciled' = FALSE
    /\ raised' = NoError
    /\ defers' = 0
    /\ propagated' = NoError
    /\ status_sets' = 0
    /\ failed_write' = NoWrite
    /\ UNCHANGED <<config, k8s_relations, velero_relations, status, faults, provider, answer>>

\* _on_update_status when a write of the publish step fails
WriteFails ==
    /\ leader
    /\ config_errors(config) = <<>>
    /\ \E place \in DOMAIN velero_relations :
       \E turn \in DOMAIN get_backup_targets(k8s_relations) :
           /\ Ends(config, k8s_relations,
                   Failed(status,
                          WriteFailure(velero_relations, place, turn, config, k8s_relations),
                          OtherError),
                   defer_on_premature_data_access_error(OtherError))
           /\ failed_write' =
                  LET target == get_backup_targets(k8s_relations)[turn]
                  IN  Write(velero_relations[place], place, CharmApp,
                            to_databag_dict(target,
                                            to_velero_spec(target, ContextConfig(config))))
           /\ UNCHANGED leader

\* _on_update_status when the unit is the leader at line 51 and Juju takes
\* the leadership away while the publish step runs
LeadershipLostInPass ==
    /\ leader
    /\ config_errors(config) = <<>>
    /\ has_velero_relation(velero_relations)
    /\ \E kept \in 0..(Len(velero_relations) - 1) :
           Ends(config, k8s_relations,
                Returned(StatusAfterPublish(config, k8s_relations),
                         PublishedWhileLeader(velero_relations, kept, config, k8s_relations)),
                defer_on_premature_data_access_error(NoError))
    /\ failed_write' = NoWrite
    /\ leader' = FALSE

\* no option set: config.get("schedule") is None
DefaultConfig == Config(NoneVal, FALSE, FALSE, FALSE)

\* the state after construction but for the reads that can fail
Constructed ==
    /\ leader \in BOOLEAN
    /\ config = DefaultConfig
    /\ k8s_relations = <<>>
    /\ velero_relations = <<>>
    /\ status = Status("unknown", "", <<>>)
    /\ writes = <<>>
    /\ reconciled = FALSE
    /\ raised = NoError
    /\ defers = 0
    /\ propagated = NoError
    /\ status_sets = 0
    /\ failed_write = NoWrite
    /\ provider = NoProvider
    /\ answer = NoAnswer

\* the charm reads relation data through ops (relation.data), whose reads
\* do not fail
Init == Constructed /\ faults = 0

\* a transport whose first reads fail
InitFailing == Constructed /\ faults \in 1..MaxFaults

Next ==
    \/ ConfigChanged
    \/ UpgradeCharm
    \/ UpdateStatus
    \/ K8sRelationCreated
    \/ K8sRelationJoined
    \/ K8sRelationChanged
    \/ K8sRelationBroken
    \/ VeleroRelationCreated
    \/ VeleroRelationJoined
    \/ VeleroRelationChanged
    \/ VeleroRelationBroken
    \/ LeadershipChanged

Spec == Init /\ [][Next]_vars

\* the charm over a transport whose first reads fail
SpecFailing == InitFailing /\ [][Next]_vars

\* the handlers, and passes that the environment disturbs: a write that
\* fails, the leadership taken away
NextDisturbed ==
    \/ ConfigChanged
    \/ UpdateStatus
    \/ LeadershipChanged
    \/ WriteFails
    \/ LeadershipLostInPass

\* the upstream links a hook can find: none, one or two, each with any of
\* the payloads
UpstreamInputs ==
    {<<>>}
    \cup {<<UpstreamWith(first)>> : first \in UpstreamPayloads}
    \cup {<<UpstreamWith(first), UpstreamWith(second)>> :
             first \in UpstreamPayloads, second \in UpstreamPayloads}

\* the downstream links a hook can find: one or two, nothing published yet
DownstreamInputs ==
    {[i \in 1..n |-> [name |-> VELERO_BACKUP_RELATION, data |-> EmptyDict]] :
        n \in 1..MaxDownstream}

\* a unit, leader or not, built over any of these links and configurations
InitDisturbed ==
    /\ leader \in BOOLEAN
    /\ config \in ConfigInputs \cup {DefaultConfig}
    /\ k8s_relations \in UpstreamInputs
    /\ velero_relations \in DownstreamInputs
    /\ status = Status("unknown", "", <<>>)
    /\ writes = <<>>
    /\ reconciled = FALSE
    /\ raised = NoError
    /\ defers = 0
    /\ propagated = NoError
    /\ status_sets = 0
    /\ failed_write = NoWrite
    /\ provider = NoProvider
    /\ answer = NoAnswer
    /\ faults = 0

SpecDisturbed == InitDisturbed /\ [][NextDisturbed]_vars

\* a unit on which no configuration or relation event occurs any more: Juju
\* moves the leadership and delivers update-status, which it does
\* periodically for as long as the unit lives
NextQuiet ==
    \/ LeadershipChanged
    \/ UpdateStatus

\* Juju fires update-status at every interval for as long as the unit lives
\* (general.py 30): update-status steps keep occurring.  A step of UpdateStatus
\* that changes nothing is a stuttering step, and it changes something whenever
\* the unit has not reconciled since the last event, so weak fairness of
\* UpdateStatus gives: the unit is reconciled again and again, or update-status
\* steps are taken again and again.
UpdateStatusKeepsFiring == []<>reconciled \/ []<><<UpdateStatus>>_vars

SpecQuiet == InitDisturbed /\ [][NextQuiet]_vars /\ UpdateStatusKeepsFiring

\* ---------------------------------------------------------------------------
\* The charm object is built anew for every hook, over whatever the Juju model
\* holds by then.  The specification below starts it over a wide choice of
\* schedule options and of upstream payloads, and runs the pass on them.

MinCronFields == 4
MaxCronFields == 7

\* the pieces joined by sep
RECURSIVE Join(_, _)
Join(pieces, sep) ==
    IF pieces = <<>> THEN <<>>
    ELSE IF Len(pieces) = 1 THEN pieces[1]
    ELSE pieces[1] \o sep \o Join(Tail(pieces), sep)

\* fields of a cron expression: *, */5, 7, 1-5, 1,2, 1-5,7, 2,14, ? and
\* *,5, */5,7, ?,1, 5,*, a, */, */a, 1-, -5, 1-2-3, 5/2, 1,, ,1, 1,,2, ??
CronFieldInputs ==
    {<<"*">>, <<"*", "/", "5">>, <<"7">>, <<"1", "-", "5">>, <<"1", ",", "2">>,
     <<"1", "-", "5", ",", "7">>, <<"2", ",", "1", "4">>, <<"?">>,
     <<"*", ",", "5">>, <<"*", "/", "5", ",", "7">>, <<"?", ",", "1">>, <<"5", ",", "*">>,
     <<"a">>, <<"*", "/">>, <<"*", "/", "a">>, <<"1", "-">>, <<"-", "5">>,
     <<"1", "-", "2", "-", "3">>, <<"5", "/", "2">>, <<"1", ",">>, <<",", "1">>,
     <<"1", ",", ",", "2">>, <<"?", "?">>}

\* what stands between two fields
SeparatorInputs == {<<" ">>, <<" ", " ">>, <<"\t">>}

\* n fields, all of them * but the one at position p
CronWith(n, p, field, sep) ==
    Join([i \in 1..n |-> IF i = p THEN field ELSE <<"*">>], sep)

\* schedule options: the expressions above, and some with whitespace or a
\* newline around them
ScheduleInputs ==
    {CronWith(n, p, field, <<" ">>) :
        n \in MinCronFields..MaxCronFields, p \in 1..MaxCronFields, field \in CronFieldInputs}
    \cup {CronWith(n, 1, <<"*">>, sep) : n \in MinCronFields..MaxCronFields, sep \in SeparatorInputs}
    \cup {Cron0200 \o <<"\n">>, Cron0200 \o <<" ">>, <<" ">> \o Cron0200,
          Cron0200 \o <<"\n", "\n">>, <<"\n">> \o Cron0200, InvalidCron, <<" ">>, <<"*">>}

WideConfigs ==
    {Config(Some(schedule), paused, FALSE, FALSE) :
        schedule \in ScheduleInputs \cup {<<>>}, paused \in BOOLEAN}
    \cup {Config(NoneVal, paused, FALSE, FALSE) : paused \in BOOLEAN}

\* ttl values: none, 24h, 1h30m, 1h2m3s, and 1d, 30m1h, h
TtlInputs ==
    {JNull, JChars(<<"2", "4", "h">>), JChars(<<"1", "h", "3", "0", "m">>),
     JChars(<<"1", "h", "2", "m", "3", "s">>),
     JChars(<<"1", "d">>), JChars(<<"3", "0", "m", "1", "h">>), JChars(<<"h">>)}

\* BackupTargetSpec values a client application can hold
TargetSpecInputs ==
    {[f \in TargetFields |->
        CASE f = "include_namespaces" -> ns
          [] f = "include_resources" -> res
          [] f = "exclude_namespaces" -> xns
          [] f = "exclude_resources" -> xres
          [] f = "label_selector" -> sel
          [] f = "ttl" -> ttl
          [] OTHER -> cluster] :
        ns \in {JNull, JList(<<>>), JList(<<"ns1">>)},
        res \in {JNull, JList(<<"pods", "secrets">>)},
        xns \in {JNull, JList(<<"kube-system">>)},
        xres \in {JNull, JList(<<"events">>)},
        sel \in {JNull, JDict(<<"app", "web">>)},
        ttl \in TtlInputs,
        cluster \in {JNull, JBool(TRUE), JBool(FALSE)}}

ClientModel == "client-model"
ClientApp == "client-app"
ClientEndpoint == "backup"

\* BackupTargetProvider._send_data: what the client writes to its application
\* databag of the relation
SentData(spec) ==
    [k \in {MODEL_FIELD, APP_FIELD, RELATION_FIELD, SPEC_FIELD} |->
        CASE k = MODEL_FIELD -> ClientModel
          [] k = APP_FIELD -> ClientApp
          [] k = RELATION_FIELD -> ClientEndpoint
          [] OTHER -> BackupTargetSpec_model_dump_json(spec)]

\* d without the keys of gone
Without(d, gone) == [k \in (DOMAIN d) \ gone |-> d[k]]

\* the spec of FullPayload as parsed, its ttl spelled character by character
FullSpec ==
    [BackupTargetSpec_model_validate_json(FullPayload[SPEC_FIELD]).spec
        EXCEPT !["ttl"] = JChars(<<"2", "4", "h">>)]

\* upstream databags: what _send_data writes for each spec, and databags
\* written by hand with some of the provenance keys left out
WidePayloads ==
    {SentData(spec) : spec \in TargetSpecInputs}
    \cup {Without(SentData(FullSpec), gone) :
             gone \in SUBSET {MODEL_FIELD, APP_FIELD, RELATION_FIELD}}

\* a leader with one downstream and one upstream relation, the option or the
\* upstream databag being any of the above
InitInputs ==
    /\ leader = TRUE
    /\ \/ config \in WideConfigs /\ k8s_relations \in
             {<<[name |-> K8S_BACKUP_TARGET_RELATION, has_app |-> TRUE,
                 app_name |-> RemoteApp, data |-> SpecOnlyPayload]>>}
       \/ config = DefaultConfig /\ k8s_relations \in
             {<<[name |-> K8S_BACKUP_TARGET_RELATION, has_app |-> TRUE,
                 app_name |-> RemoteApp, data |-> payload]>> : payload \in WidePayloads}
    /\ velero_relations = <<[name |-> VELERO_BACKUP_RELATION, data |-> EmptyDict]>>
    /\ status = Status("unknown", "", <<>>)
    /\ writes = <<>>
    /\ reconciled = FALSE
    /\ raised = NoError
    /\ defers = 0
    /\ propagated = NoError
    /\ status_sets = 0
    /\ failed_write = NoWrite
    /\ provider = NoProvider
    /\ answer = NoAnswer
    /\ faults = 0

\* the pass over these inputs
SpecInputs == InitInputs /\ [][UpdateStatus]_vars

\* ---------------------------------------------------------------------------
\* Properties of the reconcile pass.  They are stated on the inputs of the
\* pass as the events set them, not on what the code computes from them.

\* the schedule options that are no cron expression, and those that are one
\* or none
InvalidSchedules == {Some(InvalidCron)}
ValidSchedules == {NoneVal, Some(<<>>), Some(Cron0200)}

\* a schedule is configured: the option is set and not blank
Configured(raw) == raw.schedule.some /\ raw.schedule.v # <<>>

\* the upstream link carries a valid spec
ValidUpstream(rel) == rel.has_app /\ rel.data \in {FullPayload, SpecOnlyPayload}

\* the upstream link's payload has no spec key or an empty spec string
BlankUpstream(rel) ==
    rel.has_app /\ (SPEC_FIELD \notin DOMAIN rel.data \/ rel.data[SPEC_FIELD] = EmptyText)

\* the upstream link's spec is malformed JSON or violates the schema
BrokenUpstream(rel) ==
    rel.has_app /\ rel.data \in {MalformedPayload, SchemaViolationPayload}

ValidLinks == {i \in DOMAIN k8s_relations : ValidUpstream(k8s_relations[i])}

\* the last step was a pass of the leader on a valid configuration
LeaderPass == reconciled /\ leader /\ config.schedule \in ValidSchedules

\* what the spec published for the upstream link rel under the options raw
\* deserializes to
ExpectedSpec(rel, raw) ==
    LET upstream == JsonLoads(rel.data[SPEC_FIELD].members)
    IN  [f \in VeleroFields |->
            CASE f = "schedule" -> IF Configured(raw) THEN JChars(raw.schedule.v) ELSE JNull
              [] f = "paused" -> JBool(raw.paused)
              [] f = "skip_immediately" -> JBool(raw.skip_immediately)
              [] f = "use_owner_references_in_backup" ->
                     JBool(raw.use_owner_references_in_backup)
              [] OTHER -> IF f \in DOMAIN upstream THEN upstream[f] ELSE JNull]

\* a provenance value: the one the upstream link published, else the fallback
Provenance(rel, key, fallback) ==
    IF key \in DOMAIN rel.data THEN rel.data[key] ELSE fallback

\* databag holds the four keys, with the record of the upstream link rel
\* merged with the options raw
Carries(databag, rel, raw) ==
    /\ DOMAIN databag = {"spec", "app", "relation_name", "model"}
    /\ databag["spec"].kind = "object"
    /\ JsonLoads(databag["spec"].members) = ExpectedSpec(rel, raw)
    /\ databag["app"] = Provenance(rel, "app", rel.app_name)
    /\ databag["relation_name"] = Provenance(rel, "relation_name", "k8s-backup-target")
    /\ databag["model"] = Provenance(rel, "model", ModelName)

\* the record of every upstream link with a valid spec was written to every
\* downstream link
EveryRecordWritten ==
    \A i \in ValidLinks : \A j \in DOMAIN velero_relations :
        \E k \in DOMAIN writes :
            /\ writes[k].relation = j
            /\ Carries(writes[k].data, k8s_relations[i], config)

\* C1: after a pass run by a unit that is not the leader the status is active
\* "Unit is ready (standby)", whatever the configuration and the links.
C1_StandbyWhenNotLeader ==
    (reconciled /\ ~leader) =>
        status = [name |-> "active", message |-> "Unit is ready (standby)", arg |-> <<>>]

C1_Witness ==
    /\ reconciled /\ ~leader
    /\ config.schedule \in InvalidSchedules
    /\ Len(velero_relations) > 0
    /\ \E i \in DOMAIN k8s_relations : ValidUpstream(k8s_relations[i])
    /\ status.message = "Unit is ready (standby)"

\* C2: after a pass of the leader on a schedule that fails validation the
\* status is blocked "Invalid configuration: ...", whatever the links.
C2_InvalidConfigBlocks ==
    (reconciled /\ leader /\ config.schedule \in InvalidSchedules) =>
        /\ status.name = "blocked"
        /\ status.message = "Invalid configuration: "
        /\ status.arg # <<>>

C2_Witness ==
    /\ reconciled /\ leader
    /\ config.schedule \in InvalidSchedules
    /\ Len(velero_relations) > 0
    /\ \E i \in DOMAIN k8s_relations : ValidUpstream(k8s_relations[i])
    /\ status.name = "blocked"
    /\ status.message = "Invalid configuration: "

\* C3: after a pass of the leader on a valid configuration with no downstream
\* link the status is blocked "Missing relation: velero-backup", whatever the
\* upstream links.
C3_MissingDownstreamBlocks ==
    (LeaderPass /\ Len(velero_relations) = 0) =>
        status = [name |-> "blocked", message |-> "Missing relation: velero-backup",
                  arg |-> <<>>]

C3_Witness ==
    /\ LeaderPass
    /\ Len(velero_relations) = 0
    /\ \E i \in DOMAIN k8s_relations : ValidUpstream(k8s_relations[i])
    /\ \E i \in DOMAIN k8s_relations : ~ValidUpstream(k8s_relations[i])
    /\ status.message = "Missing relation: velero-backup"

\* C4: after a pass of the leader on a valid configuration with a downstream
\* link and no upstream link the status is waiting "Waiting for
\* k8s-backup-target relation" and the pass wrote to no downstream databag.
C4_WaitingWithoutUpstream ==
    (LeaderPass /\ Len(velero_relations) > 0 /\ Len(k8s_relations) = 0) =>
        /\ status = [name |-> "waiting",
                     message |-> "Waiting for k8s-backup-target relation", arg |-> <<>>]
        /\ writes = <<>>

C4_Witness ==
    /\ LeaderPass
    /\ Len(velero_relations) > 1
    /\ Len(k8s_relations) = 0
    /\ status.name = "waiting"
    /\ writes = <<>>

\* C5: after a pass of the leader on a valid configuration with a downstream
\* and an upstream link the status is active: "Schedule paused" when a
\* schedule is configured and paused is set, "Schedule: <schedule>" when a
\* schedule is configured and paused is not set, "Manual backup mode" when no
\* schedule is configured, whatever paused is.
C5_ActiveMessage ==
    (LeaderPass /\ Len(velero_relations) > 0 /\ Len(k8s_relations) > 0) =>
        status = IF Configured(config)
                 THEN IF config.paused
                      THEN [name |-> "active", message |-> "Schedule paused", arg |-> <<>>]
                      ELSE [name |-> "active", message |-> "Schedule: ",
                            arg |-> config.schedule.v]
                 ELSE [name |-> "active", message |-> "Manual backup mode", arg |-> <<>>]

C5_Witness ==
    /\ LeaderPass
    /\ Len(velero_relations) > 0 /\ Len(k8s_relations) > 0
    /\ ~Configured(config) /\ config.paused
    /\ status.message = "Manual backup mode"

\* C6: after a pass of the leader on a valid configuration with a downstream
\* link and one upstream link with a valid spec, the databag of every
\* downstream link holds the keys spec, app, relation_name and model: spec
\* deserializes to the fields of the upstream spec with schedule, paused,
\* skip_immediately and use_owner_references_in_backup of the configuration,
\* and the three others are the provenance of the record.
C6_DatabagHoldsMergedRecord ==
    (LeaderPass /\ Len(velero_relations) > 0 /\ Cardinality(ValidLinks) = 1) =>
        \A i \in ValidLinks : \A j \in DOMAIN velero_relations :
            Carries(velero_relations[j].data, k8s_relations[i], config)

C6_Witness ==
    /\ LeaderPass
    /\ Len(velero_relations) > 1
    /\ Len(k8s_relations) > 1
    /\ Cardinality(ValidLinks) = 1
    /\ config.schedule = Some(Cron0200) /\ ~config.paused
    /\ writes # <<>>
    /\ \A j \in DOMAIN velero_relations :
           /\ velero_relations[j].data["app"] = "target-app"
           /\ velero_relations[j].data["model"] = "test-model"

\* C7: in the publish step of a pass with M upstream links that yield a valid
\* record and N downstream links, N x M writes are made, and the record of
\* each of the M links, merged with the configuration, is written to each of
\* the N downstream links.
C7_WritesPerRecordAndLink ==
    LeaderPass =>
        /\ Len(writes) = Len(velero_relations) * Cardinality(ValidLinks)
        /\ EveryRecordWritten

C7_Witness ==
    /\ LeaderPass
    /\ Len(velero_relations) > 1
    /\ Len(k8s_relations) > 1
    /\ k8s_relations[1].data = FullPayload
    /\ k8s_relations[2].data = SpecOnlyPayload
    /\ Len(writes) = 4

\* C8: an upstream link whose payload has no spec key or an empty spec string
\* yields no record: no write stems from it, the records of the other links are
\* written all the same, and the pass ends active when a downstream and an
\* upstream link exist, also when nothing was published.
C8_BlankSpecYieldsNoRecord ==
    (LeaderPass /\ Len(velero_relations) > 0
        /\ \E i \in DOMAIN k8s_relations : BlankUpstream(k8s_relations[i])) =>
        /\ status.name = "active"
        /\ \A k \in DOMAIN writes : writes[k].data["app"] \notin {"x", "y"}
        /\ \A k \in DOMAIN writes :
               \E i \in ValidLinks : Carries(writes[k].data, k8s_relations[i], config)
        /\ EveryRecordWritten

C8_Witness ==
    /\ LeaderPass
    /\ Len(velero_relations) > 0
    /\ Len(k8s_relations) > 1
    /\ k8s_relations[1].data = NoSpecPayload
    /\ k8s_relations[2].data = FullPayload
    /\ status.name = "active"
    /\ Len(writes) = Len(velero_relations)

\* C9: an upstream link whose spec is malformed JSON or violates the schema
\* yields no record: no write stems from it, and the pass completes with the
\* status that the other inputs determine, active when a downstream and an
\* upstream link exist, the records of the other links being written.
C9_BrokenSpecYieldsNoRecord ==
    (LeaderPass /\ Len(velero_relations) > 0
        /\ \E i \in DOMAIN k8s_relations : BrokenUpstream(k8s_relations[i])) =>
        /\ status.name = "active"
        /\ status.message \in {"Schedule paused", "Schedule: ", "Manual backup mode"}
        /\ \A k \in DOMAIN writes : writes[k].data["app"] \notin {"m", "s"}
        /\ Len(writes) = Len(velero_relations) * Cardinality(ValidLinks)
        /\ EveryRecordWritten

C9_Witness ==
    /\ LeaderPass
    /\ Len(velero_relations) > 0
    /\ Len(k8s_relations) > 1
    /\ k8s_relations[1].data = SchemaViolationPayload
    /\ k8s_relations[2].data = MalformedPayload
    /\ status.name = "active"
    /\ writes = <<>>

\* the downstream links after a step are those before it, but for the one
\* that the event adds (its databag empty) or removes, with their databags
DatabagsKept ==
    \/ velero_relations' = velero_relations
    \/ velero_relations' =
           Append(velero_relations, [name |-> "velero-backup", data |-> EmptyDict])
    \/ \E i \in DOMAIN velero_relations : velero_relations' = RemoveAt(velero_relations, i)

\* C10: a pass run by a unit that is not the leader writes nothing: it makes
\* no write, and every downstream databag is after the pass what it was
\* before it, whatever the event, the upstream specs and the downstream links.
C10_NonLeaderWritesNothing ==
    [][(reconciled' /\ ~leader') => (writes' = <<>> /\ DatabagsKept)]_vars

C10_Witness ==
    /\ reconciled /\ ~leader
    /\ config.schedule \in ValidSchedules
    /\ Len(velero_relations) > 1
    /\ \E i \in DOMAIN k8s_relations : ValidUpstream(k8s_relations[i])
    /\ velero_relations[1].data # EmptyDict
    /\ velero_relations[2].data = EmptyDict
    /\ writes = <<>>

\* the result of publish_to_relation on the downstream link at place in the
\* current state, the options being raw
PublishedAt(place, raw) ==
    publish_to_relation([velero |-> velero_relations, writes |-> <<>>],
                        place, leader, raw, k8s_relations)

\* C11: a pass of the leader that finds the schedule invalid publishes
\* nothing: it makes no write and every downstream databag is after the pass
\* what it was before it; and publish_to_relation, called on an invalid
\* configuration, writes nothing either.
C11_InvalidConfigPublishesNothing ==
    [][/\ (reconciled' /\ leader' /\ config'.schedule \in InvalidSchedules) =>
              (writes' = <<>> /\ DatabagsKept)
       /\ \A place \in DOMAIN velero_relations :
              \A raw \in ConfigInputs :
                  raw.schedule \in InvalidSchedules =>
                      /\ PublishedAt(place, raw).writes = <<>>
                      /\ PublishedAt(place, raw).velero = velero_relations]_vars

C11_Witness ==
    /\ reconciled /\ leader
    /\ config.schedule \in InvalidSchedules
    /\ status.name = "blocked"
    /\ Len(velero_relations) > 1
    /\ \A j \in DOMAIN velero_relations : "spec" \in DOMAIN velero_relations[j].data
    /\ \E i \in DOMAIN k8s_relations : ValidUpstream(k8s_relations[i])
    /\ writes = <<>>

\* the configurations that can be set
AllConfigs == ConfigInputs \cup {DefaultConfig}

\* C12: to_velero_spec copies every field of the upstream spec into its
\* result, always sets paused, skip_immediately and
\* use_owner_references_in_backup to the values of the configuration, and sets
\* schedule to the schedule of the configuration when there is one; when
\* there is none, schedule is null in the result and paused is still the
\* value of the configuration.  Stated for the record of every upstream link
\* of the state and every valid configuration.
C12_MergeCopiesAndOverwrites ==
    \A i \in DOMAIN k8s_relations : \A raw \in AllConfigs :
        LET rel == k8s_relations[i]
            target == from_relation_data(rel.data, rel, ModelName)
        IN  (rel.has_app /\ target.ok /\ raw.schedule \in ValidSchedules) =>
                LET out == to_velero_spec(target, CharmConfig(raw))
                    upstream == JsonLoads(rel.data["spec"].members)
                IN  /\ \A f \in TargetFields :
                           out[f] = IF f \in DOMAIN upstream THEN upstream[f] ELSE JNull
                    /\ out["paused"] = JBool(raw.paused)
                    /\ out["skip_immediately"] = JBool(raw.skip_immediately)
                    /\ out["use_owner_references_in_backup"] =
                           JBool(raw.use_owner_references_in_backup)
                    /\ out["schedule"] =
                           IF Configured(raw) THEN JChars(raw.schedule.v) ELSE JNull

C12_Witness ==
    /\ LeaderPass
    /\ ~Configured(config) /\ config.paused
    /\ \E i \in DOMAIN k8s_relations : k8s_relations[i].data = FullPayload
    /\ writes # <<>>
    /\ \A k \in DOMAIN writes :
           /\ JsonLoads(writes[k].data["spec"].members)["schedule"] = JNull
           /\ JsonLoads(writes[k].data["spec"].members)["paused"] = JBool(TRUE)
           /\ JsonLoads(writes[k].data["spec"].members)["ttl"] = JStr("24h")

\* the last of the upstream links that carry a valid spec
LastValidLink == CHOOSE i \in ValidLinks : \A other \in ValidLinks : other <= i

\* C13: whatever was published before, after a pass of the leader on a valid
\* configuration with a downstream link and a valid upstream record, every
\* downstream databag is the payload computed from the current upstream
\* payload and the current configuration alone (of the last valid upstream
\* link when there are several): nothing of an earlier pass is left in it.
C13_DatabagFullyReplaced ==
    (LeaderPass /\ Len(velero_relations) > 0 /\ ValidLinks # {}) =>
        \A j \in DOMAIN velero_relations :
            Carries(velero_relations[j].data, k8s_relations[LastValidLink], config)

C13_Witness ==
    /\ LeaderPass
    /\ Len(velero_relations) > 1
    /\ Len(k8s_relations) > 1
    /\ k8s_relations[1].data = FullPayload
    /\ k8s_relations[2].data = SpecOnlyPayload
    /\ ~Configured(config)
    /\ \A j \in DOMAIN velero_relations :
           /\ velero_relations[j].data["app"] = RemoteApp
           /\ JsonLoads(velero_relations[j].data["spec"].members)["schedule"] = JNull

\* the schedule of the spec published in databag
PublishedSchedule(databag) == JsonLoads(databag["spec"].members)["schedule"]

\* C14: when the schedule option goes from a valid cron expression to the
\* empty string, the pass of the leader on that event reports no invalid
\* configuration: with a downstream and an upstream link it sets the status
\* active 'Manual backup mode', and with a valid upstream record the spec it
\* publishes on every downstream link has a null schedule.
C14_BlankScheduleIsManualMode ==
    [][(/\ config.schedule = Some(Cron0200)
        /\ config'.schedule = Some(<<>>)
        /\ reconciled' /\ leader'
        /\ Len(velero_relations') > 0
        /\ Len(k8s_relations') > 0) =>
           /\ status' = ActiveStatus("Manual backup mode", <<>>)
           /\ (ValidLinks' # {}) =>
                  /\ writes' # <<>>
                  /\ \A j \in DOMAIN velero_relations' :
                         PublishedSchedule(velero_relations'[j].data) = JNull]_vars

C14_Witness ==
    /\ LeaderPass
    /\ config.schedule = Some(<<>>)
    /\ status = ActiveStatus("Manual backup mode", <<>>)
    /\ ValidLinks # {}
    /\ Len(velero_relations) > 1
    /\ \A j \in DOMAIN velero_relations :
           PublishedSchedule(velero_relations[j].data) = JNull
    /\ \E k \in DOMAIN writes : PublishedSchedule(writes[k].data) = JNull

\* every key of the databags of links is in the databag of the link at the
\* same place of links_after
KeysKeptIn(links, links_after) ==
    /\ Len(links) = Len(links_after)
    /\ \A j \in DOMAIN links :
           DOMAIN links[j].data \subseteq DOMAIN links_after[j].data

\* no downstream link that outlasts the step loses a key of its databag
KeysKept ==
    \/ KeysKeptIn(velero_relations, velero_relations')
    \/ /\ Len(velero_relations') = Len(velero_relations) + 1
       /\ KeysKeptIn(velero_relations,
                     SubSeq(velero_relations', 1, Len(velero_relations)))
    \/ \E i \in DOMAIN velero_relations :
           KeysKeptIn(RemoveAt(velero_relations, i), velero_relations')

\* C15: no step removes a key from the databag of a downstream link; a
\* databag changes only in a step that writes to it; and a pass that finds no
\* valid upstream record (the link that carried it is gone, or no longer
\* yields one) leaves every downstream databag as it was, earlier payload
\* included.
C15_NothingRetracted ==
    [][/\ KeysKept
       /\ (DatabagsKept \/ writes' # <<>>)
       /\ (reconciled' /\ ValidLinks' = {}) => (writes' = <<>> /\ DatabagsKept)]_vars

C15_Witness ==
    /\ LeaderPass
    /\ Len(k8s_relations) = 0
    /\ status.name = "waiting"
    /\ writes = <<>>
    /\ Len(velero_relations) > 0
    /\ \A j \in DOMAIN velero_relations :
           DOMAIN velero_relations[j].data = {"spec", "app", "relation_name", "model"}

\* C16: the integrator writes only to its own application databag on the
\* downstream links, and only while it is the leader: every write of a pass
\* is to relation.data[app] of a velero-backup link, none to a databag of an
\* upstream link, of the remote application or of a unit, and a pass that
\* writes is a pass of the leader.
C16_WritesOnlyOwnAppDatabag ==
    /\ \A k \in DOMAIN writes :
           /\ writes[k].endpoint = VELERO_BACKUP_RELATION
           /\ writes[k].endpoint # K8S_BACKUP_TARGET_RELATION
           /\ writes[k].entity = CharmApp
           /\ writes[k].relation \in DOMAIN velero_relations
    /\ writes # <<>> => (leader /\ reconciled)

C16_Witness ==
    /\ leader /\ reconciled
    /\ Len(writes) = 4
    /\ Len(k8s_relations) = 2
    /\ \E k \in DOMAIN writes : writes[k].relation = 2 /\ writes[k].entity = CharmApp

\* C17: when a read of relation data raises the premature-data-access error
\* during a pass, the pass is abandoned and the event is deferred: the handler
\* calls event.defer() exactly once and returns normally, whatever the
\* trigger (config-changed, upgrade-charm, update-status, relation created,
\* joined, changed or broken on either endpoint).
C17_PrematureErrorDefersEveryTrigger ==
    raised = PrematureDataAccessError =>
        /\ defers = 1
        /\ propagated = NoError
        /\ ~reconciled
        /\ writes = <<>>

\* C18: a failure of the hook that is not the premature-data-access error
\* comes out of the handler unchanged and the event is not deferred; and a
\* pass that runs to its end never defers and raises nothing.
C18_OtherErrorsPropagate ==
    /\ raised = OtherError => (propagated = OtherError /\ defers = 0)
    /\ raised = NoError => (propagated = NoError /\ defers = 0)
    /\ reconciled => (raised = NoError /\ defers = 0)

C18_Witness ==
    /\ leader
    /\ raised = OtherError
    /\ propagated = OtherError
    /\ defers = 0
    /\ ~reconciled
    /\ Len(velero_relations) > 0
    /\ \E i \in DOMAIN k8s_relations : ValidUpstream(k8s_relations[i])

\* C19: every external event starts a pass, a change of leadership included:
\* the unit that gains leadership runs a pass on that event, so that it does
\* not keep the standby status of a unit that is not the leader.
C19_EveryEventStartsPass ==
    [][/\ reconciled' \/ raised' # NoError
       /\ (~leader /\ leader') =>
              status' # ActiveStatus("Unit is ready (standby)", <<>>)]_vars

\* C20: the message of the blocked status for an invalid configuration lists
\* the names of the invalid fields, sorted and joined by commas; for a
\* schedule that is no cron expression the field listed is 'schedule'.
C20_InvalidCronNamesSchedule ==
    (reconciled /\ leader /\ config.schedule \in InvalidSchedules) =>
        status = BlockedStatus("Invalid configuration: ", <<"schedule">>)

\* the last step was a handler, which ran a pass: to its end, or into an error
PassRan == reconciled \/ raised # NoError

\* the states a pass reports: standby is the active status of a unit that is
\* not the leader
ReportedStates == {"active", "blocked", "waiting"}

FirstMatch(is_leader, raw, downstream, upstream) ==
    IF ~is_leader THEN <<"active", "Unit is ready (standby)", <<>> >>
    ELSE IF raw.schedule \in InvalidSchedules
    THEN <<"blocked", "Invalid configuration: ", <<>> >>
    ELSE IF downstream = 0 THEN <<"blocked", "Missing relation: velero-backup", <<>> >>
    ELSE IF upstream = 0
    THEN <<"waiting", "Waiting for k8s-backup-target relation", <<>> >>
    ELSE IF ~Configured(raw) THEN <<"active", "Manual backup mode", <<>> >>
    ELSE IF raw.paused THEN <<"active", "Schedule paused", <<>> >>
    ELSE <<"active", "Schedule: ", raw.schedule.v>>

\* C22: the status after a completed pass is a function of the inputs at that
\* pass only, the leader flag, the configuration and the numbers of
\* downstream and upstream links: whatever the event that triggered the pass
\* and whatever came before, it is the first match of the order standby,
\* ConfigInvalid, MissingDownstream, waiting, active.
C22_StatusIsFirstMatch ==
    reconciled =>
        <<status.name, status.message,
          IF status.name = "blocked" THEN <<>> ELSE status.arg>> =
            FirstMatch(leader, config, Len(velero_relations), Len(k8s_relations))

C22_Witness ==
    /\ reconciled /\ leader
    /\ status = ActiveStatus("Schedule paused", <<>>)
    /\ Len(k8s_relations) = 2
    /\ ValidLinks = {}
    /\ \A j \in DOMAIN velero_relations : velero_relations[j].data # EmptyDict

WrittenTo(upstream, downstream, made, raw) ==
    \A i \in DOMAIN upstream :
        ValidUpstream(upstream[i]) =>
            \A j \in DOMAIN downstream :
                \E k \in DOMAIN made :
                    /\ made[k].relation = j
                    /\ Carries(made[k].data, upstream[i], raw)

\* C24: the blocked ConfigInvalid state is not sticky.  When an invalid
\* schedule is replaced by a valid one, the pass of the leader on that event,
\* with a downstream and an upstream link, reports active, and republishes the
\* record of every valid upstream link; and when a valid schedule is replaced
\* by an invalid one, the pass of the leader reports blocked.
C24_ConfigInvalidNotSticky ==
    [][/\ (/\ config.schedule \in InvalidSchedules
           /\ config'.schedule \in ValidSchedules
           /\ reconciled' /\ leader'
           /\ Len(velero_relations') > 0
           /\ Len(k8s_relations') > 0) =>
              /\ status'.name = "active"
              /\ status' = ScheduleStatus(CharmConfig(config'))
              /\ WrittenTo(k8s_relations', velero_relations', writes', config')
       /\ (/\ config.schedule \in ValidSchedules
           /\ config'.schedule \in InvalidSchedules
           /\ reconciled' /\ leader') =>
              /\ status'.name = "blocked"
              /\ status'.message = "Invalid configuration: "
              /\ writes' = <<>>]_vars

C24_Witness ==
    /\ LeaderPass
    /\ Configured(config)
    /\ status.name = "active"
    /\ ValidLinks # {}
    /\ EveryRecordWritten
    /\ \E j \in DOMAIN velero_relations :
           PublishedSchedule(velero_relations[j].data) = JChars(Cron0200)

\* C25: the pass run on a relation-broken event does not count the link
\* being broken.  When the last upstream link breaks, with a downstream link
\* and a valid configuration, the leader reports waiting; when the last
\* downstream link breaks, the leader reports blocked 'Missing relation:
\* velero-backup' and writes nothing.
C25_BrokenLinkNotCounted ==
    [][/\ (/\ Len(k8s_relations) = 1 /\ Len(k8s_relations') = 0
           /\ reconciled' /\ leader'
           /\ config'.schedule \in ValidSchedules
           /\ Len(velero_relations') > 0) =>
              /\ status' = WaitingStatus("Waiting for k8s-backup-target relation", <<>>)
              /\ writes' = <<>>
       /\ (/\ Len(velero_relations) = 1 /\ Len(velero_relations') = 0
           /\ reconciled' /\ leader'
           /\ config'.schedule \in ValidSchedules) =>
              /\ status' = BlockedStatus("Missing relation: velero-backup", <<>>)
              /\ writes' = <<>>]_vars

C25_Witness ==
    /\ LeaderPass
    /\ Len(k8s_relations) = 0
    /\ Len(velero_relations) = 2
    /\ status = WaitingStatus("Waiting for k8s-backup-target relation", <<>>)
    /\ writes = <<>>
    /\ ~Configured(config)
    /\ \A j \in DOMAIN velero_relations :
           /\ "spec" \in DOMAIN velero_relations[j].data
           /\ PublishedSchedule(velero_relations[j].data) = JChars(Cron0200)

\* C26: the record built from an upstream link takes its application name,
\* relation name and model name from the keys app, relation_name and model of
\* the link's payload; for a key the payload does not hold it takes the name
\* of the remote application of the link, the name of the link's endpoint and
\* the name of the charm's own model.  The pass of the leader publishes these
\* three values downstream.
C26_ProvenanceFromPayloadOrLink ==
    \A i \in DOMAIN k8s_relations :
        LET rel == k8s_relations[i]
            record == from_relation_data(rel.data, rel, ModelName)
        IN  (rel.has_app /\ record.ok) =>
                /\ record.app_name = Provenance(rel, APP_FIELD, RemoteApp)
                /\ record.relation_name = Provenance(rel, RELATION_FIELD, "k8s-backup-target")
                /\ record.model_name = Provenance(rel, MODEL_FIELD, ModelName)
                /\ (reconciled /\ leader /\ status.name = "active" /\ Len(k8s_relations) = 1) =>
                      \A j \in DOMAIN velero_relations :
                          /\ velero_relations[j].data["app"] = record.app_name
                          /\ velero_relations[j].data["relation_name"] = record.relation_name
                          /\ velero_relations[j].data["model"] = record.model_name

C26_Witness ==
    /\ reconciled
    /\ leader
    /\ Len(k8s_relations) = 1
    /\ DOMAIN k8s_relations[1].data = {SPEC_FIELD, MODEL_FIELD}
    /\ Len(velero_relations) = 1
    /\ "app" \in DOMAIN velero_relations[1].data
    /\ velero_relations[1].data["app"] = RemoteApp
    /\ velero_relations[1].data["relation_name"] = K8S_BACKUP_TARGET_RELATION
    /\ velero_relations[1].data["model"] = ClientModel
    /\ Len(writes) = 1

\* the ttl the upstream link's payload gives, JNull when it gives none
TtlOf(rel) ==
    IF SPEC_FIELD \in DOMAIN rel.data /\ rel.data[SPEC_FIELD].kind = "object"
    THEN Given(JsonLoads(rel.data[SPEC_FIELD].members), "ttl")
    ELSE JNull

\* the upstream link's payload gives a ttl that is no duration
InvalidTtl(rel) == TtlOf(rel).t = "str" /\ ~DURATION_REGEX(TtlOf(rel).v)

\* C27: a spec whose ttl is present and does not match the duration grammar
\* (digits+h, digits+m, digits+s in that order, at least one digit) fails
\* to parse, so its link yields no record: the record is not built, and the
\* pass of the leader publishes nothing for the link.
C27_InvalidTtlYieldsNoRecord ==
    (reconciled /\ leader /\ Len(k8s_relations) = 1) =>
        LET rel == k8s_relations[1]
        IN  (rel.has_app /\ InvalidTtl(rel)) =>
                /\ ~from_relation_data(rel.data, rel, ModelName).ok
                /\ writes = <<>>

\* C28: for every valid configuration: an empty-string schedule is accepted
\* and normalised to none; is_scheduled is true exactly when a schedule is
\* left after that normalisation; is_paused is true exactly when is_scheduled
\* holds and the paused option is set.  The active status of the leader shows
\* it: 'Schedule paused' exactly when paused with a schedule, 'Manual backup
\* mode' exactly when there is no schedule.
C28_ScheduleNormalisedAndDerived ==
    LET valid == CharmConfig(config)
    IN  /\ config.schedule = Some(<<>>) => (valid.ok /\ valid.schedule = NoneVal)
        /\ valid.ok =>
              /\ is_scheduled(valid) <=> Configured(config)
              /\ is_paused(valid) <=> (Configured(config) /\ config.paused)
              /\ (reconciled /\ leader /\ status.name = "active") =>
                    /\ status.message = "Schedule paused" <=>
                          (Configured(config) /\ config.paused)
                    /\ status.message = "Manual backup mode" <=> ~Configured(config)

C28_Witness ==
    /\ reconciled
    /\ leader
    /\ config.schedule = Some(<<>>)
    /\ config.paused
    /\ CharmConfig(config).ok
    /\ ~is_paused(CharmConfig(config))
    /\ status = ActiveStatus("Manual backup mode", <<>>)

\* s[a..b] is a number
NumberAt(s, a, b) == a <= b /\ \A i \in a..b : s[i] \in Digits

\* a number, or a range A-B
NumberOrRange(s) ==
    \/ NumberAt(s, 1, Len(s))
    \/ \E dash \in 1..Len(s) :
          /\ s[dash] = "-"
          /\ NumberAt(s, 1, dash - 1)
          /\ NumberAt(s, dash + 1, Len(s))

\* */N
Step(s) == Len(s) >= 3 /\ s[1] = "*" /\ s[2] = "/" /\ NumberAt(s, 3, Len(s))

\* every item of the comma-separated list s satisfies Item
ListOf(s, Item(_)) ==
    LET cuts == {0, Len(s) + 1} \cup {i \in 1..Len(s) : s[i] = ","}
    IN  \A a \in cuts : \A b \in cuts :
            (a < b /\ \A c \in cuts : ~(a < c /\ c < b)) =>
                Item(SubSeq(s, a + 1, b - 1))

\* the field grammar as the claim words it: the list is one of "those"
FieldAsWritten(s) ==
    \/ s = <<"?">>
    \/ ListOf(s, LAMBDA item : item = <<"*">> \/ Step(item) \/ NumberOrRange(item))

\* the field grammar with lists of numbers and ranges only
FieldOfNumberLists(s) ==
    \/ s = <<"*">>
    \/ Step(s)
    \/ s = <<"?">>
    \/ ListOf(s, NumberOrRange)

\* s, a final newline apart, starts and ends with a field and is made of 5
\* or 6 maximal runs of non-whitespace characters, each of them a Field
FiveOrSixFields(s, Field(_)) ==
    LET n == IF Len(s) > 0 /\ s[Len(s)] = "\n" THEN Len(s) - 1 ELSE Len(s)
        runs == {run \in (1..n) \X (1..n) :
                    /\ run[1] <= run[2]
                    /\ \A i \in run[1]..run[2] : s[i] \notin Whitespace
                    /\ run[1] = 1 \/ s[run[1] - 1] \in Whitespace
                    /\ run[2] = n \/ s[run[2] + 1] \in Whitespace}
    IN  /\ n > 0
        /\ s[1] \notin Whitespace
        /\ s[n] \notin Whitespace
        /\ Cardinality(runs) \in {5, 6}
        /\ \A run \in runs : Field(SubSeq(s, run[1], run[2]))

\* the configuration is accepted, and the pass of the leader does not block,
\* exactly when the schedule is in the grammar
AcceptedExactly(grammar) ==
    /\ CharmConfig(config).ok <=> grammar
    /\ (reconciled /\ leader) => (status.name = "blocked" <=> ~grammar)

\* C29 as worded: a non-empty schedule is accepted exactly when it consists of
\* 5 or 6 whitespace-separated fields, each of them '*', '*/N', a number, a
\* range A-B, a comma-separated list of those, or '?'; any other schedule is
\* rejected.
C29_CronGrammarAsWritten ==
    Configured(config) =>
        AcceptedExactly(FiveOrSixFields(config.schedule.v, FieldAsWritten))

\* C29: a non-empty schedule is accepted exactly when it consists of 5 or 6
\* fields separated by runs of whitespace, each of them '*', '*/N', '?', or a
\* comma-separated list of numbers and ranges A-B; any other schedule, a list
\* holding '*' or '*/N' included, is rejected with a validation error and
\* blocks the pass.
C29_CronGrammar ==
    Configured(config) =>
        AcceptedExactly(FiveOrSixFields(config.schedule.v, FieldOfNumberLists))

C29_Witness ==
    /\ reconciled
    /\ leader
    /\ \E p \in 1..5 : config.schedule = Some(CronWith(5, p, <<"*", ",", "5">>, <<" ">>))
    /\ ~CharmConfig(config).ok
    /\ status.name = "blocked"
    /\ writes = <<>>

WritesOf(i, j) ==
    {k \in DOMAIN writes :
        /\ writes[k].relation = j
        /\ Carries(writes[k].data, k8s_relations[i], config)}

OfOneRecord(databag) ==
    \E payload \in {FullPayload, SpecOnlyPayload} : \E raw \in AllConfigs :
        Carries(databag, UpstreamWith(payload), raw)

\* C33: starting from empty downstream databags, in every reachable state the
\* application databag of each downstream link holds either none of the keys
\* spec, app, relation_name, model or all four of them, and when it holds
\* them spec and provenance are those of one upstream record as one write
\* leaves them, never the spec of one record with the provenance of another.
C33_DatabagNoneOrOneRecord ==
    \A j \in DOMAIN velero_relations :
        \/ DOMAIN velero_relations[j].data = {}
        \/ /\ DOMAIN velero_relations[j].data = {"spec", "app", "relation_name", "model"}
           /\ OfOneRecord(velero_relations[j].data)

C33_Witness ==
    /\ Len(velero_relations) = 2
    /\ DOMAIN velero_relations[1].data = {"spec", "app", "relation_name", "model"}
    /\ velero_relations[1].data["app"] = FullPayload["app"]
    /\ OfOneRecord(velero_relations[1].data)
    /\ DOMAIN velero_relations[2].data = {}
    /\ Len(k8s_relations) = 1
    /\ k8s_relations[1].data = SpecOnlyPayload
    /\ k8s_relations[1].has_app
    /\ reconciled

\* C34: for every raw configuration Context.config is None exactly when
\* Context.config_errors is not empty.  So a pass of the leader that does not
\* report an invalid configuration publishes: with a downstream link and an
\* upstream link that yields a record, a pass that ends active made a write
\* to every downstream link, and a pass that reports an invalid configuration
\* made none.
C34_ConfigNoneIffErrors ==
    /\ ~ContextConfig(config).ok <=> config_errors(config) # <<>>
    /\ (reconciled /\ leader /\ Len(velero_relations) > 0) =>
          /\ status.name = "blocked" <=> config_errors(config) # <<>>
          /\ status.name = "blocked" => writes = <<>>
          /\ \A i \in DOMAIN k8s_relations :
                LET rel == k8s_relations[i]
                IN  (status.name # "blocked" /\ rel.has_app
                        /\ from_relation_data(rel.data, rel, ModelName).ok) =>
                       \A j \in DOMAIN velero_relations :
                           \E k \in DOMAIN writes :
                               /\ writes[k].relation = j
                               /\ writes[k].data["app"] = Provenance(rel, APP_FIELD, RemoteApp)

C34_Witness ==
    /\ reconciled
    /\ leader
    /\ config.paused
    /\ Configured(config)
    /\ config.schedule.v # Cron0200
    /\ ContextConfig(config).ok
    /\ config_errors(config) = <<>>
    /\ status = ActiveStatus("Schedule paused", <<>>)
    /\ Len(writes) = 1

\* C37: an upstream link that has no remote application yet contributes no
\* record and no write, but counts as an upstream link: after a pass of the
\* leader on a valid configuration with a downstream link, when no upstream
\* link has a remote application yet and there is at least one, the status is
\* active, not waiting, and nothing was written; and whatever the links, no
\* write is made for a link without a remote application.
C37_LinkWithoutAppCountsButYieldsNothing ==
    (LeaderPass /\ Len(velero_relations) > 0 /\ Len(k8s_relations) > 0) =>
        /\ status.name = "active"
        /\ Len(writes) = Len(velero_relations) *
              Cardinality({i \in ValidLinks : k8s_relations[i].has_app})
        /\ (\A i \in DOMAIN k8s_relations : ~k8s_relations[i].has_app) => writes = <<>>

C37_Witness ==
    /\ LeaderPass
    /\ Len(velero_relations) = 1
    /\ Len(k8s_relations) = 1
    /\ ~k8s_relations[1].has_app
    /\ status = ActiveStatus("Manual backup mode", <<>>)
    /\ writes = <<>>
    /\ velero_relations[1].data = EmptyDict

\* the places in made of the writes to the downstream link j
WritesTo(made, j) == {k \in DOMAIN made : made[k].relation = j}

\* the databag of the downstream link j of after is the data of the last
\* write of made to it, or what before held when made has none
KeptIn(after, before, made, j) ==
    IF WritesTo(made, j) = {} THEN after[j] = before[j]
    ELSE \E last \in WritesTo(made, j) :
            /\ \A k \in WritesTo(made, j) : k <= last
            /\ after[j].data = made[last].data

\* C31: when a write to a downstream link fails during the publish step, the
\* failure leaves the handler (it is neither deferred nor swallowed), the
\* write is not tried again within the pass (the failed write is not among
\* the writes made, and no link after it is visited), and the writes made
\* before it stay: every link before the failing one holds the record of
\* the last valid upstream link, and the failing link holds what was written
\* to it before the failure.
C31_FailedWriteKeepsEarlierWrites ==
    [][failed_write' # NoWrite =>
          LET place == failed_write'.relation
          IN  /\ raised' = OtherError
              /\ propagated' = OtherError
              /\ defers' = 0
              /\ ~reconciled'
              /\ status' = status
              /\ place \in DOMAIN velero_relations
              /\ Cardinality(WritesTo(writes', place)) < Cardinality(ValidLinks)
              /\ \A j \in DOMAIN velero_relations :
                    /\ KeptIn(velero_relations', velero_relations, writes', j)
                    /\ j < place =>
                          /\ Cardinality(WritesTo(writes', j)) = Cardinality(ValidLinks)
                          /\ Carries(velero_relations'[j].data,
                                     k8s_relations[LastValidLink], config)
                    /\ j > place => WritesTo(writes', j) = {}
    ]_vars

C31_Witness ==
    /\ failed_write # NoWrite
    /\ failed_write.relation = 2
    /\ propagated = OtherError
    /\ Len(velero_relations) = 2
    /\ ValidLinks = {1, 2}
    /\ k8s_relations[1].data = FullPayload
    /\ k8s_relations[2].data = SpecOnlyPayload
    /\ Len(writes) = 3
    /\ Carries(velero_relations[1].data, k8s_relations[2], config)
    /\ Carries(velero_relations[2].data, k8s_relations[1], config)
    /\ Carries(failed_write.data, k8s_relations[2], config)

\* C35: leadership is checked at the start of the pass, at the start of the
\* publish step and before the writes to each downstream link.  When the unit
\* is the leader at the start of a pass and is no longer the leader at its
\* end, the downstream links visited after the loss are not written and keep
\* their databag, those visited before it are written in full, and the pass
\* still sets the status of a leader, waiting or active, not standby.
C35_NoWriteAfterLeadershipLost ==
    [][(leader /\ ~leader' /\ reconciled') =>
          /\ status'.name \in {"waiting", "active"}
          /\ status' # ActiveStatus("Unit is ready (standby)", <<>>)
          /\ status'.name = "waiting" <=> Len(k8s_relations) = 0
          /\ status_sets' = 1
          /\ \E kept \in 0..(Len(velero_relations) - 1) :
                \A j \in DOMAIN velero_relations :
                    /\ j <= kept =>
                          /\ Cardinality(WritesTo(writes', j)) = Cardinality(ValidLinks)
                          /\ KeptIn(velero_relations', velero_relations, writes', j)
                    /\ j > kept =>
                          /\ WritesTo(writes', j) = {}
                          /\ velero_relations'[j] = velero_relations[j]
    ]_vars

C35_Witness ==
    /\ ~leader
    /\ reconciled
    /\ status = ActiveStatus("Manual backup mode", <<>>)
    /\ Len(velero_relations) = 2
    /\ ValidLinks # {}
    /\ Cardinality(WritesTo(writes, 1)) = Cardinality(ValidLinks)
    /\ WritesTo(writes, 2) = {}
    /\ Carries(velero_relations[1].data, k8s_relations[LastValidLink], config)
    /\ velero_relations[2].data = EmptyDict

\* the status of a unit that is not the leader
Standby == ActiveStatus("Unit is ready (standby)", <<>>)

\* the unit ran a pass as leader: its status is not standby and, with a valid
\* configuration, a downstream link and a valid upstream record, every
\* downstream databag holds the merged payload
RanAsLeader ==
    /\ leader
    /\ reconciled
    /\ status # Standby
    /\ (config.schedule \in ValidSchedules /\ ValidLinks # {}) =>
          \A j \in DOMAIN velero_relations :
              Carries(velero_relations[j].data, k8s_relations[LastValidLink], config)

\* C36: when a unit gains leadership and no configuration or relation event
\* follows, then with update-status delivered fairly the unit eventually runs
\* a pass as leader (or loses the leadership again): its status leaves
\* standby and the merged payload is published.  Gaining leadership itself
\* runs no handler: on that step the status stays what it was and nothing is
\* published.
C36_LeaderEventuallyReconciles ==
    /\ (leader /\ ~reconciled) ~> (~leader \/ RanAsLeader)
    /\ [][(~leader /\ leader') =>
              /\ status' = status
              /\ velero_relations' = velero_relations
              /\ writes' = <<>>
              /\ ~reconciled']_vars

C36_Witness ==
    /\ RanAsLeader
    /\ config.schedule = Some(Cron0200)
    /\ ValidLinks = {1}
    /\ Len(velero_relations) = 2
    /\ Len(writes) = 2
    /\ status = ActiveStatus("Schedule: ", Cron0200)

\* ---------------------------------------------------------------------------
\* charms/k8s_backup_libs/v0/backup_target.py: BackupTargetProvider, the client
\* side of k8s-backup-target.  provider is the client unit: whether it leads,
\* the spec its charm builds at construction, its own application databag on
\* each relation of the endpoint, and the event and the writes of the last
\* hook it ran.

MaxProviderRelations == 2

\* _send_data without the leadership check
send_data_without_leader_check(is_leader, spec, relations) ==
    [relations |-> [i \in DOMAIN relations |-> DictUpdate(relations[i], SentData(spec))],
     sent |-> [i \in DOMAIN relations |-> [relation |-> i, data |-> SentData(spec)]]]

\* BackupTargetProvider._send_data: the databags after it, and the writes made
send_data(is_leader, spec, relations) ==
    IF ~is_leader THEN [relations |-> relations, sent |-> <<>>]
    ELSE IF relations = <<>> THEN [relations |-> relations, sent |-> <<>>]
    ELSE [relations |-> [i \in DOMAIN relations |->
                            DictUpdate(relations[i], SentData(spec))],
          sent |-> [i \in DOMAIN relations |-> [relation |-> i, data |-> SentData(spec)]]]

\* the hook of an event that _send_data observes, on the model as the event
\* leaves it
ProviderHandles(event, is_leader, spec, relations) ==
    /\ provider' = [leader |-> is_leader, spec |-> spec, event |-> event,
                    relations |-> send_data(is_leader, spec, relations).relations,
                    sent |-> send_data(is_leader, spec, relations).sent]
    /\ UNCHANGED <<leader, config, k8s_relations, velero_relations, status, writes,
                   reconciled, raised, defers, propagated, status_sets, faults,
                   failed_write, answer>>

\* the specs the client charm builds from its configuration
ProviderSpecs ==
    {FullSpec, [FullSpec EXCEPT !["ttl"] = JNull], [f \in TargetFields |-> JNull]}

\* what an application databag of the client may hold before a hook: nothing,
\* what a leader sent before, or keys written by other code of the charm
ProviderDatabags ==
    {EmptyDict, NoSpecPayload, DictUpdate([k \in {"other"} |-> "kept"], SentData(FullSpec))}

\* leader-elected: the unit is the leader when the hook runs
ProviderLeaderElected ==
    /\ ~provider.leader
    /\ ProviderHandles("leader-elected", TRUE, provider.spec, provider.relations)

\* relation-created of the endpoint: the new relation has an empty databag
ProviderRelationCreated ==
    /\ Len(provider.relations) < MaxProviderRelations
    /\ ProviderHandles("relation-created", provider.leader, provider.spec,
                       Append(provider.relations, EmptyDict))

\* upgrade-charm
ProviderUpgradeCharm ==
    ProviderHandles("upgrade-charm", provider.leader, provider.spec, provider.relations)

\* the refresh event of the test charm, config-changed: the charm is built
\* anew with the spec of the new configuration
ProviderRefresh ==
    \E spec \in ProviderSpecs :
        ProviderHandles("config-changed", provider.leader, spec, provider.relations)

\* the unit stops being the leader: no hook of the provider observes it
ProviderLeadershipLost ==
    /\ provider.leader
    /\ provider' = [provider EXCEPT !.leader = FALSE, !.sent = <<>>, !.event = ""]
    /\ UNCHANGED <<leader, config, k8s_relations, velero_relations, status, writes,
                   reconciled, raised, defers, propagated, status_sets, faults,
                   failed_write, answer>>

NextProvider ==
    \/ ProviderLeaderElected
    \/ ProviderRelationCreated
    \/ ProviderUpgradeCharm
    \/ ProviderRefresh
    \/ ProviderLeadershipLost

\* a client unit before any hook, over whatever its model holds
InitProvider ==
    /\ leader = FALSE
    /\ config = DefaultConfig
    /\ k8s_relations = <<>>
    /\ velero_relations = <<>>
    /\ status = Status("unknown", "", <<>>)
    /\ writes = <<>>
    /\ reconciled = FALSE
    /\ raised = NoError
    /\ defers = 0
    /\ propagated = NoError
    /\ status_sets = 0
    /\ failed_write = NoWrite
    /\ answer = NoAnswer
    /\ faults = 0
    /\ \E is_leader \in BOOLEAN, spec \in ProviderSpecs, n \in 0..MaxProviderRelations :
        \E relations \in [1..n -> ProviderDatabags] :
            provider = [leader |-> is_leader, spec |-> spec, relations |-> relations,
                        sent |-> <<>>, event |-> ""]

SpecProvider == InitProvider /\ [][NextProvider]_vars

\* the events that BackupTargetProvider observes
SendDataEvents == {"leader-elected", "relation-created", "upgrade-charm", "config-changed"}

\* the four keys that _send_data writes for the spec
FourKeys(spec) ==
    [k \in {MODEL_FIELD, APP_FIELD, RELATION_FIELD, SPEC_FIELD} |->
        CASE k = MODEL_FIELD -> ClientModel
          [] k = APP_FIELD -> ClientApp
          [] k = RELATION_FIELD -> ClientEndpoint
          [] OTHER -> ObjectText([i \in 1..Len(TargetFieldOrder) |->
                          Member(TargetFieldOrder[i], spec[TargetFieldOrder[i]])])]

\* the databag holds the four keys of the spec
HoldsSent(databag, spec) ==
    \A k \in DOMAIN FourKeys(spec) : k \in DOMAIN databag /\ databag[k] = FourKeys(spec)[k]

\* the hook left the databags of before as they were
OwnDatabagsKept(after, before) ==
    \A i \in DOMAIN before : i \in DOMAIN after /\ after[i] = before[i]

\* C38: after a hook of leader-elected, relation-created, upgrade-charm or the
\* refresh event, a unit that is not the leader, or whose endpoint has no
\* relation, has written nothing and every databag is as before; a leader has
\* made one write per relation of the endpoint, of exactly the keys model,
\* app, relation_name and spec, the spec being the serialized spec the charm
\* was built with, and every databag holds them, its other keys kept.
C38_SendDataWritesFourKeysAsLeader ==
    /\ [](provider.event \in SendDataEvents =>
            IF ~provider.leader \/ provider.relations = <<>>
            THEN provider.sent = <<>>
            ELSE /\ Len(provider.sent) = Len(provider.relations)
                 /\ \A i \in DOMAIN provider.relations :
                      /\ provider.sent[i] = [relation |-> i, data |-> FourKeys(provider.spec)]
                      /\ HoldsSent(provider.relations[i], provider.spec))
    /\ [][(provider'.event \in SendDataEvents /\ ~provider'.leader) =>
              OwnDatabagsKept(provider'.relations, provider.relations)]_vars
    /\ [][(provider'.event \in SendDataEvents /\ provider'.leader) =>
              \A i \in DOMAIN provider.relations :
                  \A k \in (DOMAIN provider.relations[i]) \ DOMAIN FourKeys(provider.spec) :
                      /\ k \in DOMAIN provider'.relations[i]
                      /\ provider'.relations[i][k] = provider.relations[i][k]]_vars

C38_Witness ==
    /\ provider.event = "config-changed"
    /\ provider.leader
    /\ provider.spec = [FullSpec EXCEPT !["ttl"] = JNull]
    /\ Len(provider.relations) = 2
    /\ Len(provider.sent) = 2
    /\ "other" \in DOMAIN provider.relations[1]
    /\ HoldsSent(provider.relations[2], provider.spec)

\* ---------------------------------------------------------------------------
\* charms/k8s_backup_libs/v0/backup_target.py: BackupTargetRequier, the lookup
\* of a spec by the client it came from.  answer is the last call made: its
\* arguments <<app_name, endpoint, model>>, whether it returned a spec (found)
\* or raised, and the spec.

MaxRequirerRelations == 2

\* the condition of the lookup with only the application compared
Matches_app_only(data, app_name, endpoint, model) ==
    APP_FIELD \in DOMAIN data /\ data[APP_FIELD] = app_name

\* data.get(APP_FIELD) == app_name and data.get(MODEL_FIELD) == model and
\* data.get(RELATION_FIELD) == endpoint
Matches(data, app_name, endpoint, model) ==
    /\ APP_FIELD \in DOMAIN data /\ data[APP_FIELD] = app_name
    /\ MODEL_FIELD \in DOMAIN data /\ data[MODEL_FIELD] = model
    /\ RELATION_FIELD \in DOMAIN data /\ data[RELATION_FIELD] = endpoint

\* relation.data.get(relation.app, {})
RemoteAppData(relation) == IF relation.has_app THEN relation.data ELSE EmptyDict

\* BackupTargetSpec.model_validate_json(data.get(SPEC_FIELD, "{}")): the spec
\* returned, or the ValidationError raised
SpecOfMatch(data) ==
    LET parsed == BackupTargetSpec_model_validate_json(
                      IF SPEC_FIELD \in DOMAIN data THEN data[SPEC_FIELD]
                      ELSE ObjectText(<<>>))
    IN  [found |-> parsed.ok, raised |-> ~parsed.ok, spec |-> parsed.spec]

\* BackupTargetRequier.get_backup_spec
RECURSIVE get_backup_spec(_, _, _, _)
get_backup_spec(relations, app_name, endpoint, model) ==
    IF relations = <<>>
    THEN [found |-> FALSE, raised |-> FALSE, spec |-> [f \in TargetFields |-> JNull]]
    ELSE IF Matches(RemoteAppData(Head(relations)), app_name, endpoint, model)
    THEN SpecOfMatch(RemoteAppData(Head(relations)))
    ELSE get_backup_spec(Tail(relations), app_name, endpoint, model)

\* a call of get_backup_spec by the charm that holds the requirer
GetBackupSpec ==
    /\ \E app_name \in {ClientApp, "other-app"}, endpoint \in {ClientEndpoint, "other-endpoint"},
          model \in {ClientModel, "other-model"} :
        answer' = [asked |-> <<app_name, endpoint, model>>,
                   found |-> get_backup_spec(k8s_relations, app_name, endpoint, model).found,
                   raised |-> get_backup_spec(k8s_relations, app_name, endpoint, model).raised,
                   spec |-> get_backup_spec(k8s_relations, app_name, endpoint, model).spec]
    /\ UNCHANGED <<leader, config, k8s_relations, velero_relations, status, writes,
                   reconciled, raised, defers, propagated, status_sets, faults,
                   failed_write, provider>>

\* the remote application databags the requirer may find: what _send_data
\* writes, the same with some keys missing, with one key of another client,
\* with another spec, and with a spec that is no JSON or the empty string
RequirerDatabags ==
    {Without(SentData(FullSpec), gone) :
        gone \in SUBSET {MODEL_FIELD, APP_FIELD, RELATION_FIELD, SPEC_FIELD}}
    \cup {[SentData(FullSpec) EXCEPT ![APP_FIELD] = "other-app"],
          [SentData(FullSpec) EXCEPT ![MODEL_FIELD] = "other-model"],
          [SentData(FullSpec) EXCEPT ![RELATION_FIELD] = "other-endpoint"],
          SentData([FullSpec EXCEPT !["ttl"] = JNull]),
          [SentData(FullSpec) EXCEPT ![SPEC_FIELD] = MalformedText],
          [SentData(FullSpec) EXCEPT ![SPEC_FIELD] = EmptyText]}

\* the relations of the endpoint: each with one of the databags, or with no
\* remote application yet
RequirerRelations ==
    {UpstreamWith(data) : data \in RequirerDatabags}
    \cup {[UpstreamWith(SentData(FullSpec)) EXCEPT !.has_app = FALSE]}

InitRequirer ==
    /\ leader = TRUE
    /\ config = DefaultConfig
    /\ \E n \in 0..MaxRequirerRelations : k8s_relations \in [1..n -> RequirerRelations]
    /\ velero_relations = <<>>
    /\ status = Status("unknown", "", <<>>)
    /\ writes = <<>>
    /\ reconciled = FALSE
    /\ raised = NoError
    /\ defers = 0
    /\ propagated = NoError
    /\ status_sets = 0
    /\ failed_write = NoWrite
    /\ provider = NoProvider
    /\ answer = NoAnswer
    /\ faults = 0

SpecRequirer == InitRequirer /\ [][GetBackupSpec]_vars

\* the relations whose remote application databag holds the three values asked
FullMatches(asked) ==
    {i \in DOMAIN k8s_relations :
        /\ k8s_relations[i].has_app
        /\ {APP_FIELD, RELATION_FIELD, MODEL_FIELD} \subseteq DOMAIN k8s_relations[i].data
        /\ <<k8s_relations[i].data[APP_FIELD], k8s_relations[i].data[RELATION_FIELD],
             k8s_relations[i].data[MODEL_FIELD]>> = asked}

\* the first of them
FirstFullMatch(asked) == CHOOSE i \in FullMatches(asked) : \A j \in FullMatches(asked) : i <= j

\* C39: get_backup_spec(app, endpoint, model) returns None when no relation's
\* remote application databag holds all three of app, model and
\* relation_name as asked, however many hold one or two of them.  Otherwise
\* the first such relation decides: without a spec key the call returns the
\* empty spec (every field None), with a spec that validates it returns that
\* spec, and with a spec that does not it raises and returns nothing, no
\* later relation being looked at.
C39_FirstFullMatchOrNone ==
    answer.asked # <<>> =>
        IF FullMatches(answer.asked) = {}
        THEN ~answer.found /\ ~answer.raised
        ELSE LET data == k8s_relations[FirstFullMatch(answer.asked)].data
             IN  IF SPEC_FIELD \notin DOMAIN data
                 THEN /\ answer.found
                      /\ answer.spec = [f \in TargetFields |-> JNull]
                 ELSE IF BackupTargetSpec_model_validate_json(data[SPEC_FIELD]).ok
                 THEN /\ answer.found
                      /\ answer.spec = BackupTargetSpec_model_validate_json(data[SPEC_FIELD]).spec
                 ELSE answer.raised /\ ~answer.found

C39_Witness ==
    /\ answer.asked = <<ClientApp, ClientEndpoint, ClientModel>>
    /\ Len(k8s_relations) = 2
    /\ k8s_relations[1].data = Without(SentData(FullSpec), {MODEL_FIELD})
    /\ k8s_relations[2].data = Without(SentData(FullSpec), {SPEC_FIELD})
    /\ answer.found
    /\ answer.spec = [f \in TargetFields |-> JNull]

====
